---- MODULE Spec2Model ----
(***************************************************************************)
(* The cron-driven queue drainer (CronProcessorService), the e-mail sender *)
(* (EmailService), the rate limiter (RateLimiterService), the SQS adapter  *)
(* (SQSService) and the event-driven entry (LambdaProcessorService) as one *)
(* state machine.                                                          *)
(*                                                                         *)
(* JavaScript runs one task at a time and switches tasks only at an await, *)
(* so every action below is the code between two awaits.  Time is the      *)
(* variable now (milliseconds, Date.now()); it advances only while a timer *)
(* or an I/O call is pending.                                              *)
(***************************************************************************)
EXTENDS Integers, Sequences, FiniteSets, TLC

(***************************************************************************)
(* Bounds of the model.                                                    *)
(***************************************************************************)
\* messages the source queue hands out during one run
MaxMessages == 2
\* the clock stops advancing here
MaxTime == 130000
\* SQS calls (receive, delete, send to the dead-letter queue) that fail in one run
MaxFaults == 1
\* the limits of the rate limiter, scaled down: the source has
\* globalRateLimit = 35, gmail.com = 15 and default = 30 (per minute)
GlobalLimit == 3
GmailLimit == 2
DefaultLimit == 3
\* the run that loads the rate limiter: its messages, its maxConcurrency and
\* the clock advances it may make while only I/O is pending
RateMessages == 9
RateConcurrency == 3
RateIoTicks == 2
SlowSmtpLatency == 4000
SlowSmtpTicks == 2

(***************************************************************************)
(* Program constants.                                                      *)
(***************************************************************************)
maxRetries == 3
initialRetryDelay == 1000
maxRetryDelay == 60000
idempotencyWindow == 86400000
batchSize == 10
maxProcessingTime == 840000
maxEmptyPolls == 3
DeadlineMargin == 5000
DeadlineBuffer == 60000
OneSecond == 1000
OneMinute == 60000
CooldownMs == 60000
CleanupAge == 120000
EmptyPollSleep == 1000
BatchSleep == 100
ErrorSleep == 2000
MaxPollSeconds == 20
FingerprintChars == 100
\* the time one I/O step takes when the clock advances during I/O
IoLatency == 150

(***************************************************************************)
(* Values.                                                                 *)
(***************************************************************************)
Null == "<null>"

Min2(a, b) == IF a < b THEN a ELSE b
Max2(a, b) == IF a > b THEN a ELSE b

RECURSIVE SeqMin(_)
SeqMin(s) ==
    IF Len(s) = 1 THEN s[1] ELSE Min2(s[1], SeqMin(Tail(s)))

RECURSIVE Pow2(_)
Pow2(n) == IF n <= 0 THEN 1 ELSE 2 * Pow2(n - 1)

\* a JavaScript Map as a function on its keys
MapSet(m, k, v) == [x \in (DOMAIN m) \cup {k} |-> IF x = k THEN v ELSE m[x]]
MapDelete(m, k) == [x \in (DOMAIN m) \ {k} |-> m[x]]
EmptyMap == [x \in {} |-> 0]

\* an address as email.split('@') sees it: the sequence of its parts
Recipients == { <<"a", "gmail.com">> }

\* String.prototype.toLowerCase on the host names of the model
toLowerCase(s) == IF s = "Example.ORG" THEN "example.org" ELSE s

\* message bodies a producer may enqueue: JSON objects and one non-JSON text
Bodies ==
    { [json |-> TRUE, to |-> r, subject |-> "hi", content |-> <<"h", "e">>]
        : r \in Recipients }
    \cup { [json |-> FALSE, to |-> <<"x">>, subject |-> "", content |-> <<>>] }

\* Math.random(), in thousandths
RandomPermille == {0}

\* the values of maxConcurrency tried (setMaxConcurrency allows 1..50)
ConcurrencySettings == {1, 2}

\* what transporter.sendMail may answer: 250, or an error object with its
\* responseCode (0: none), its code and the keyword its message holds
SmtpOk == [responseCode |-> 250, code |-> "", message |-> ""]
SmtpError(rc, c, m) == [responseCode |-> rc, code |-> c, message |-> m]
SmtpErrors ==
    { SmtpError(421, "EENVELOPE", "try again later"),
      SmtpError(451, "EMESSAGE", "greylisted"),
      SmtpError(550, "EENVELOPE", "no such user") }


(***************************************************************************)
(* State.                                                                  *)
(***************************************************************************)
VARIABLES
    now,                \* Date.now()
    ioTicks,            \* clock advances made while only I/O was pending
    fetched,            \* messages handed out by the source queue so far
    faults,             \* SQS calls that have failed so far
    dlqConfigured,      \* config.aws.SQS_DLQ_URL || SQS_DLQ_NAME is set
    maxConcurrency,     \* CronProcessorService.maxConcurrency
    pc,                 \* where processQueue stands
    startTime,          \* CronProcessorService.startTime
    lambdaDeadline,     \* processQueue's lambdaDeadline
    emptyPolls,         \* processQueue's emptyPolls
    emptyRun,           \* history: the fetches that returned nothing since
                        \* the last fetch that returned messages
    totalProcessed,     \* processQueue's totalProcessed
    totalFailed,        \* processQueue's totalFailed
    stoppedReason,      \* summary.stoppedReason, "" until processQueue returns
    wake,               \* when the drainer's pending sleep or long poll ends
    pollStart,          \* when the pending receiveMessages was called
    batch,              \* messages of the batch being dispatched
    chunkStart,         \* messages of the batch that lie before the current chunk
    results,            \* processMessagesWithConcurrency's results
    tasks,              \* the processMessage calls of the current chunk
    domainCounters,     \* RateLimiterService.domainCounters
    globalCounter,      \* RateLimiterService.globalCounter
    domainCooldowns,    \* RateLimiterService.domainCooldowns
    processedMessages,  \* EmailService.processedMessages
    sentCount,          \* history: the sendMail calls that were accepted
    ackedCount,         \* history: the deleteMessage calls after a
                        \* successful sendEmail that succeeded
    callArgument,       \* the argument of a function that is called on its
                        \* own, <<>> when none is
    callResult,         \* what that call returned, <<>> before it returns
    workerPool,         \* the WorkerPoolService object
    pollers,            \* the startPolling calls that have not returned
    workers,            \* the processWorker calls that have not returned
    poolCalls,          \* history: the calls made from outside on the pool
    dropped,            \* history: the fetched messages the poller left out
    handed              \* history: how often each message was taken from
                        \* messageQueue by a worker

envVars == <<now, ioTicks, fetched, faults, dlqConfigured, maxConcurrency>>
drainVars ==
    <<pc, startTime, lambdaDeadline, emptyPolls, emptyRun, totalProcessed, totalFailed,
      stoppedReason, wake, pollStart, batch, chunkStart, results>>
limiterVars == <<domainCounters, globalCounter, domainCooldowns>>
callVars == <<callArgument, callResult>>
poolVars == <<workerPool, pollers, workers, poolCalls, dropped, handed>>
vars ==
    <<envVars, drainVars, tasks, limiterVars, processedMessages, sentCount,
      ackedCount, callVars, poolVars>>

(***************************************************************************)
(* WorkerPoolService: the object.                                          *)
(***************************************************************************)
\* the defaults of the constructor
DefaultMaxWorkers == 10
DefaultBatchSize == 10
DefaultMaxQueueSize == 100
DefaultOptions ==
    [maxWorkers |-> DefaultMaxWorkers, batchSize |-> DefaultBatchSize,
     maxQueueSize |-> DefaultMaxQueueSize]

\* new WorkerPoolService(options), options holding every property
WorkerPoolService(options) ==
    [maxWorkers |-> options.maxWorkers,
     batchSize |-> options.batchSize,
     activeWorkers |-> 0,
     isRunning |-> FALSE,
     pauseProcessing |-> FALSE,
     messageQueue |-> <<>>,
     maxQueueSize |-> options.maxQueueSize]

\* a pool that was constructed with options and never started
Constructed(options) ==
    /\ workerPool = WorkerPoolService(options)
    /\ pollers = <<>>
    /\ workers = <<>>
    /\ poolCalls = 0
    /\ dropped = {}
    /\ handed = EmptyMap

\* the pool of a process that runs the cron drainer: never started
PoolIdle == Constructed(DefaultOptions)

(***************************************************************************)
(* RateLimiterService.                                                     *)
(***************************************************************************)
domainLimits ==
    [d \in {"gmail.com", "default"} |->
        IF d = "gmail.com" THEN GmailLimit ELSE DefaultLimit]

\* RateLimiterService.extractDomain
extractDomain(email) ==
    IF Len(email) < 2 THEN "unknown" ELSE toLowerCase(email[2])

getDomainLimit(domain) ==
    IF domain \in DOMAIN domainLimits
    THEN domainLimits[domain]
    ELSE domainLimits["default"]

\* timestamps.filter(t => t > bound)
After(timestamps, bound) == SelectSeq(timestamps, LAMBDA t : t > bound)

\* the stamps of domain within the last minute ([] when it has no counter)
recentOf(domain) ==
    IF domain \in DOMAIN domainCounters
    THEN After(domainCounters[domain], now - OneMinute)
    ELSE <<>>

canSendToDomain(domain) ==
    /\ ~(domain \in DOMAIN domainCooldowns /\ now < domainCooldowns[domain])
    /\ Len(recentOf(domain)) < getDomainLimit(domain)

getDelayForDomain(domain) ==
    IF domain \notin DOMAIN domainCounters
    THEN 0
    ELSE LET recent == After(domainCounters[domain], now - OneMinute)
         IN  IF Len(recent) >= getDomainLimit(domain)
             THEN Max2(0, (SeqMin(recent) + OneMinute) - now)
             ELSE 0

\* getGlobalDelay first replaces globalCounter by this
prunedGlobal == After(globalCounter, now - OneSecond)

getGlobalDelay ==
    IF Len(prunedGlobal) >= GlobalLimit
    THEN Max2(0, (SeqMin(prunedGlobal) + OneSecond) - now)
    ELSE 0

getDelayBeforeSend(email) ==
    Max2(getDelayForDomain(extractDomain(email)), getGlobalDelay)

\* recordSend pushing the timestamp twice
recordSendTwice(counters, domain) ==
    MapSet(counters, domain,
           IF domain \in DOMAIN counters
           THEN counters[domain] \o <<now, now>>
           ELSE <<now, now>>)

\* recordSend putting the timestamp in front (unshift for push)
recordSendDomainFirst(counters, domain) ==
    MapSet(counters, domain,
           IF domain \in DOMAIN counters
           THEN <<now>> \o counters[domain]
           ELSE <<now>>)

\* recordSend(domain): the counters after it
recordSendDomain(counters, domain) ==
    MapSet(counters, domain,
           IF domain \in DOMAIN counters
           THEN Append(counters[domain], now)
           ELSE <<now>>)

setDomainCooldown(cooldowns, domain, durationMs) ==
    MapSet(cooldowns, domain, now + durationMs)

(***************************************************************************)
(* EmailService.                                                           *)
(***************************************************************************)
\* EmailService.extractDomain: null where the limiter says "unknown"
senderDomain(email) ==
    IF Len(email) < 2 THEN Null ELSE toLowerCase(email[2])

\* generateMessageId: the SHA-256 digest stands for the text it hashes
generateMessageId(to, subject, content) ==
    <<to, subject, SubSeq(content, 1, Min2(FingerprintChars, Len(content)))>>

\* isAlreadyProcessed taking an entry of exactly the window's age for live
isAlreadyProcessedInclusive(messageId) ==
    /\ messageId \in DOMAIN processedMessages
    /\ now - processedMessages[messageId] <= idempotencyWindow

\* the window test of isAlreadyProcessed turned round
isProcessedLongAgo(messageId) ==
    /\ messageId \in DOMAIN processedMessages
    /\ now - processedMessages[messageId] >= idempotencyWindow

isAlreadyProcessed(messageId) ==
    /\ messageId \in DOMAIN processedMessages
    /\ now - processedMessages[messageId] < idempotencyWindow

\* processedMessages after isAlreadyProcessed(messageId): a stale entry goes
afterIdempotencyCheck(processed, messageId) ==
    IF messageId \in DOMAIN processed
       /\ ~(now - processed[messageId] < idempotencyWindow)
    THEN MapDelete(processed, messageId)
    ELSE processed

\* the backoff doubling from the first retry on
calculateBackoffDelayDoubled(attempt, random) ==
    LET delay == initialRetryDelay * Pow2(attempt)
        jitter == (random * 3 * delay) \div 10000
    IN  Min2(delay + jitter, maxRetryDelay)

\* the backoff with a jitter of up to half the delay
calculateBackoffDelayHalfJitter(attempt, random) ==
    LET delay == initialRetryDelay * Pow2(attempt - 1)
        jitter == (random * 5 * delay) \div 10000
    IN  Min2(delay + jitter, maxRetryDelay)

\* Math.min(delay + Math.random() * 0.3 * delay, maxRetryDelay), in whole
\* milliseconds as setTimeout takes it
calculateBackoffDelay(attempt, random) ==
    LET delay == initialRetryDelay * Pow2(attempt - 1)
        jitter == (random * 3 * delay) \div 10000
    IN  Min2(delay + jitter, maxRetryDelay)

\* isRetryableError ending with return false
isRetryableErrorDefaultPermanent(error) ==
    IF error.code \in {"ETIMEDOUT", "ECONNRESET", "ENOTFOUND"} THEN TRUE
    ELSE IF /\ error.responseCode >= 400
            /\ error.responseCode < 500
            /\ \/ error.responseCode \in {421, 450, 451, 452}
               \/ error.message \in {"rate limit", "too many",
                                     "temporarily deferred", "quota", "exceeded"}
         THEN TRUE
    ELSE IF error.responseCode >= 500 /\ error.responseCode < 600 THEN TRUE
    ELSE FALSE

isRetryableError(error) ==
    IF error.code \in {"ETIMEDOUT", "ECONNRESET", "ENOTFOUND"} THEN TRUE
    ELSE IF /\ error.responseCode >= 400
            /\ error.responseCode < 500
            /\ \/ error.responseCode \in {421, 450, 451, 452}
               \/ error.message \in {"rate limit", "too many",
                                     "temporarily deferred", "quota", "exceeded"}
         THEN TRUE
    ELSE IF error.responseCode >= 500 /\ error.responseCode < 600 THEN TRUE
    ELSE IF error.responseCode \in {550, 551, 552} THEN FALSE
    ELSE TRUE

\* prepareEmailOptions' delay for a recipient, Math.random() being random
sendJitter(to, random) ==
    IF senderDomain(to) \in {"gmail.com", "googlemail.com"}
    THEN (random * 200) \div 1000 + 50
    ELSE (random * 100) \div 1000


(***************************************************************************)
(* One processMessage call: the message, where the call stands, and what   *)
(* it has done so far.                                                     *)
(***************************************************************************)
Result(success, permanent, retryable, error) ==
    [success |-> success, permanent |-> permanent,
     isRetryable |-> retryable, error |-> error]

Pending == Result(FALSE, FALSE, FALSE, "pending")

NewTask(msg) ==
    [ pc |-> "new", msg |-> msg, attempt |-> 0, wake |-> 0,
      sendResult |-> "none",   \* what sendEmail returned
      messageIdHeader |-> 0,   \* options.headers['Message-ID']: the number
                               \* of the randomizeHeaders call of this
                               \* sendEmail that generated it, 0 before
      lastError |-> SmtpOk,    \* sendEmail's lastError
      rejections |-> 0,        \* sendMail calls that were rejected
      backoffs |-> 0,          \* backoff sleeps that have ended
      ackCalls |-> 0,          \* deleteMessage calls made
      deleted |-> FALSE,       \* a deleteMessage call succeeded
      dlqCalls |-> 0,          \* sendToDLQ calls that reached SQS
      dlq |-> FALSE,           \* a sendToDLQ call succeeded
      result |-> Pending ]

TimerPcs == {"rateWait", "jitter", "backoff"}
IoPcs == {"smtp", "delete", "dlq", "dlqDelete", "catchDlq", "catchDelete"}

Finish(t, result) == [t EXCEPT !.pc = "done", !.result = result]

\* the dead-letter path without its sendToDLQ call: deleteMessage at once
EnterDlqDeleteOnly(t, inCatch) ==
    [t EXCEPT !.pc = IF inCatch THEN "catchDelete" ELSE "dlqDelete"]

\* the call of sendToDLQ: without a configured queue it returns at once and
\* the deleteMessage that follows it is the next await
EnterDlq(t, inCatch) ==
    IF dlqConfigured
    THEN [t EXCEPT !.pc = IF inCatch THEN "catchDlq" ELSE "dlq",
                   !.dlqCalls = @ + 1]
    ELSE [t EXCEPT !.pc = IF inCatch THEN "catchDelete" ELSE "dlqDelete"]

\* sendEmail after waitIfNeeded: prepareEmailOptions (which builds the
\* headers of the message), the random delay, and the first
\* transporter.sendMail
AfterWait(t, random) ==
    LET delay == sendJitter(t.msg.to, random)
        prepared == [t EXCEPT !.messageIdHeader = @ + 1]
    IN  IF delay > 0
        THEN [prepared EXCEPT !.pc = "jitter", !.wake = now + delay]
        ELSE [prepared EXCEPT !.pc = "smtp", !.attempt = 1]

messageIdOf(msg) == generateMessageId(msg.to, msg.subject, msg.content)

\* processMessage up to its first await
StartTask(msg, random) ==
    LET t == NewTask(msg)
        delay == getDelayBeforeSend(msg.to)
    IN  IF ~msg.json
        THEN EnterDlq([t EXCEPT !.sendResult = "ParseError"], TRUE)
        ELSE IF isAlreadyProcessed(messageIdOf(msg))
        THEN [t EXCEPT !.pc = "delete", !.sendResult = "Skipped"]
        ELSE IF delay > 0
        THEN [t EXCEPT !.pc = "rateWait", !.wake = now + delay]
        ELSE AfterWait(t, random)

\* handleFailure taking the dead-letter branch for every failure
handleFailureDeadLettersAll(t, retryable, error) == EnterDlq(t, FALSE)

\* handleFailure for a failed sendEmail (isRetryableError holds of every
\* error sendMail raises, so no run takes the dead-letter branch)
handleFailure(t, retryable, error) ==
    IF ~retryable
    THEN EnterDlq(t, FALSE)
    ELSE Finish(t, Result(FALSE, FALSE, TRUE, error))

(***************************************************************************)
(* processQueue.                                                           *)
(***************************************************************************)
getRemainingTime == lambdaDeadline - (now - startTime)

\* context.getRemainingTimeInMillis() at entry: the run has 10 s
ContextRemaining == {70000}

Init ==
    /\ now = 0
    /\ ioTicks = 0
    /\ fetched = 0
    /\ faults = 0
    /\ dlqConfigured \in BOOLEAN
    /\ maxConcurrency \in ConcurrencySettings
    /\ pc = "loop"
    /\ startTime = 0
    /\ lambdaDeadline \in {r - DeadlineBuffer : r \in ContextRemaining}
    /\ emptyPolls = 0
    /\ emptyRun = 0
    /\ totalProcessed = 0
    /\ totalFailed = 0
    /\ stoppedReason = ""
    /\ wake = 0
    /\ pollStart = 0
    /\ batch = <<>>
    /\ chunkStart = 0
    /\ results = <<>>
    /\ tasks = <<>>
    /\ domainCounters = EmptyMap
    /\ globalCounter = <<>>
    /\ domainCooldowns = EmptyMap
    /\ processedMessages = EmptyMap
    /\ sentCount = 0
    /\ ackedCount = 0
    /\ callArgument = <<>>
    /\ callResult = <<>>
    /\ PoolIdle

\* MaxNumberOfMessages of the request receiveMessages(maxMessages, _) sends
MaxNumberOfMessages(maxMessages) == Min2(maxMessages, 10)

\* the loop asking for a long poll of all the whole seconds that remain
LoopPollsToDeadline ==
    /\ pc = "loop"
    /\ IF getRemainingTime > DeadlineMargin /\ emptyPolls < maxEmptyPolls
       THEN LET waitTime ==
                    Min2(MaxPollSeconds, getRemainingTime \div 1000)
            IN  /\ pc' = "fetch"
                /\ wake' = now + (IF waitTime > 0 THEN waitTime ELSE 0) * 1000
                /\ pollStart' = now
                /\ UNCHANGED stoppedReason
       ELSE /\ pc' = "done"
            /\ stoppedReason' =
                   IF emptyPolls >= maxEmptyPolls THEN "queue_empty" ELSE "timeout"
            /\ UNCHANGED <<wake, pollStart>>
    /\ UNCHANGED <<envVars, startTime, lambdaDeadline, emptyPolls, emptyRun, totalProcessed,
                   totalFailed, batch, chunkStart, results, tasks, limiterVars,
                   processedMessages, sentCount, ackedCount, callVars, poolVars>>

\* the while condition, and the call of receiveMessages
Loop ==
    /\ pc = "loop"
    /\ IF getRemainingTime > DeadlineMargin /\ emptyPolls < maxEmptyPolls
       THEN LET waitTime ==
                    Min2(MaxPollSeconds, (getRemainingTime \div 1000) - 1)
            IN  /\ pc' = "fetch"
                /\ wake' = now + (IF waitTime > 0 THEN waitTime ELSE 0) * 1000
                /\ pollStart' = now
                /\ UNCHANGED stoppedReason
       ELSE /\ pc' = "done"
            /\ stoppedReason' =
                   IF emptyPolls >= maxEmptyPolls THEN "queue_empty" ELSE "timeout"
            /\ UNCHANGED <<wake, pollStart>>
    /\ UNCHANGED <<envVars, startTime, lambdaDeadline, emptyPolls, emptyRun, totalProcessed,
                   totalFailed, batch, chunkStart, results, tasks, limiterVars,
                   processedMessages, sentCount, ackedCount, callVars, poolVars>>

\* receiveMessages returns msgs and emptyPolls is not reset
FetchBatchKeepsCount(msgs) ==
    /\ pc = "fetch"
    /\ now = pollStart \/ now >= wake
    /\ Len(msgs) <= MaxNumberOfMessages(batchSize)
    /\ batch' = msgs
    /\ fetched' = fetched + Len(msgs)
    /\ emptyRun' = 0
    /\ results' = <<>>
    /\ chunkStart' = 0
    /\ pc' = "dispatch"
    /\ UNCHANGED <<now, ioTicks, faults, dlqConfigured, maxConcurrency, startTime,
                   lambdaDeadline, emptyPolls, totalProcessed, totalFailed, stoppedReason,
                   wake, pollStart, tasks, limiterVars, processedMessages, sentCount, ackedCount, callVars, poolVars>>

\* receiveMessages returns msgs, at most Math.min(maxMessages, 10) of them:
\* at once when the queue holds messages, or when one arrives as the long
\* poll runs out
FetchBatch(msgs) ==
    /\ pc = "fetch"
    /\ now = pollStart \/ now >= wake
    /\ Len(msgs) <= MaxNumberOfMessages(batchSize)
    /\ batch' = msgs
    /\ fetched' = fetched + Len(msgs)
    /\ emptyPolls' = 0
    /\ emptyRun' = 0
    /\ results' = <<>>
    /\ chunkStart' = 0
    /\ pc' = "dispatch"
    /\ UNCHANGED <<now, ioTicks, faults, dlqConfigured, maxConcurrency, startTime,
                   lambdaDeadline, totalProcessed, totalFailed, stoppedReason,
                   wake, pollStart, tasks, limiterVars, processedMessages, sentCount, ackedCount, callVars, poolVars>>

\* receiveMessages returns nothing once the long poll has run out
FetchEmpty ==
    /\ pc = "fetch"
    /\ now >= wake
    /\ emptyPolls' = emptyPolls + 1
    /\ emptyRun' = emptyRun + 1
    /\ IF emptyPolls + 1 >= maxEmptyPolls
       THEN pc' = "loop" /\ UNCHANGED wake
       ELSE pc' = "sleep" /\ wake' = now + EmptyPollSleep
    /\ UNCHANGED <<envVars, pollStart, startTime, lambdaDeadline, totalProcessed, totalFailed,
                   stoppedReason, batch, chunkStart, results, tasks, limiterVars,
                   processedMessages, sentCount, ackedCount, callVars, poolVars>>

\* receiveMessages throws and the loop has no catch: processQueue rejects
FetchErrorRethrows ==
    /\ pc = "fetch"
    /\ faults < MaxFaults
    /\ faults' = faults + 1
    /\ pc' = "thrown"
    /\ wake' = wake
    /\ UNCHANGED <<pollStart, now, ioTicks, fetched, dlqConfigured, maxConcurrency, startTime,
                   lambdaDeadline, emptyPolls, emptyRun, totalProcessed, totalFailed,
                   stoppedReason, batch, chunkStart, results, tasks, limiterVars,
                   processedMessages, sentCount, ackedCount, callVars, poolVars>>

\* receiveMessages throws: the catch of the loop sleeps 2 s
FetchError ==
    /\ pc = "fetch"
    /\ faults < MaxFaults
    /\ faults' = faults + 1
    /\ pc' = "sleep"
    /\ wake' = now + ErrorSleep
    /\ UNCHANGED <<pollStart, now, ioTicks, fetched, dlqConfigured, maxConcurrency, startTime,
                   lambdaDeadline, emptyPolls, emptyRun, totalProcessed, totalFailed,
                   stoppedReason, batch, chunkStart, results, tasks, limiterVars,
                   processedMessages, sentCount, ackedCount, callVars, poolVars>>

\* a sleep of the loop ends: the next iteration starts, and the messages
\* and results of the last one are out of scope
SleepDone ==
    /\ pc = "sleep"
    /\ now >= wake
    /\ pc' = "loop"
    /\ batch' = <<>>
    /\ results' = <<>>
    /\ chunkStart' = 0
    /\ UNCHANGED <<envVars, startTime, lambdaDeadline, emptyPolls, emptyRun, totalProcessed,
                   totalFailed, stoppedReason, wake, pollStart, tasks, limiterVars,
                   processedMessages, sentCount, ackedCount, callVars, poolVars>>


(***************************************************************************)
(* processMessagesWithConcurrency.                                         *)
(***************************************************************************)
\* a chunk cut one message longer than maxConcurrency
chunkOfOneMore ==
    SubSeq(batch, chunkStart + 1,
           Min2(chunkStart + maxConcurrency + 1, Len(batch)))

\* the chunk the for loop is about to enter
chunkOf ==
    SubSeq(batch, chunkStart + 1, Min2(chunkStart + maxConcurrency, Len(batch)))

TimeoutResult == Result(FALSE, FALSE, FALSE, "timeout")

RECURSIVE afterIdempotencyChecks(_, _)
afterIdempotencyChecks(processed, msgs) ==
    IF msgs = <<>>
    THEN processed
    ELSE afterIdempotencyChecks(
             IF Head(msgs).json
             THEN afterIdempotencyCheck(processed, messageIdOf(Head(msgs)))
             ELSE processed,
             Tail(msgs))

\* processQueue counting every result as processed
ReturnResultsCountsAll(res) ==
    /\ results' = res
    /\ totalProcessed' = totalProcessed + Len(res)
    /\ totalFailed' =
           totalFailed + Cardinality({i \in 1..Len(res) : ~res[i].success})
    /\ pc' = "sleep"
    /\ wake' = now + BatchSleep

\* the return of processMessagesWithConcurrency: processQueue counts the
\* results and sleeps 100 ms
ReturnResults(res) ==
    /\ results' = res
    /\ totalProcessed' =
           totalProcessed + Cardinality({i \in 1..Len(res) : res[i].success})
    /\ totalFailed' =
           totalFailed + Cardinality({i \in 1..Len(res) : ~res[i].success})
    /\ pc' = "sleep"
    /\ wake' = now + BatchSleep

\* a chunk is entered with time left: every processMessage of it runs up to
\* its first await, in order, before anything else happens
DispatchChunk ==
    /\ pc = "dispatch"
    /\ chunkStart < Len(batch)
    /\ ~(getRemainingTime < DeadlineMargin)
    /\ \E randoms \in [1..Len(chunkOf) -> RandomPermille] :
          tasks' = [i \in 1..Len(chunkOf) |-> StartTask(chunkOf[i], randoms[i])]
    /\ globalCounter' =
          IF \E i \in 1..Len(chunkOf) :
                 chunkOf[i].json /\ ~isAlreadyProcessed(messageIdOf(chunkOf[i]))
          THEN prunedGlobal
          ELSE globalCounter
    /\ processedMessages' = afterIdempotencyChecks(processedMessages, chunkOf)
    /\ sentCount' = sentCount
    /\ pc' = "chunk"
    /\ UNCHANGED <<envVars, startTime, lambdaDeadline, emptyPolls, emptyRun, totalProcessed,
                   totalFailed, stoppedReason, wake, pollStart, batch, chunkStart, results,
                   domainCounters, domainCooldowns, ackedCount, callVars, poolVars>>

\* a chunk is entered with less than 5 s left: timeout results for the chunk,
\* and the for loop is left
DispatchRefuse ==
    /\ pc = "dispatch"
    /\ chunkStart < Len(batch)
    /\ getRemainingTime < DeadlineMargin
    /\ ReturnResults(results \o [i \in 1..Len(chunkOf) |-> TimeoutResult])
    /\ UNCHANGED <<envVars, startTime, lambdaDeadline, emptyPolls, emptyRun, stoppedReason,
                   pollStart, batch, chunkStart, tasks, limiterVars,
                   processedMessages, sentCount, ackedCount, callVars, poolVars>>

\* no chunk is left
DispatchReturn ==
    /\ pc = "dispatch"
    /\ chunkStart >= Len(batch)
    /\ ReturnResults(results)
    /\ UNCHANGED <<envVars, startTime, lambdaDeadline, emptyPolls, emptyRun, stoppedReason,
                   pollStart, batch, chunkStart, tasks, limiterVars,
                   processedMessages, sentCount, ackedCount, callVars, poolVars>>

\* Promise.all in the place of Promise.allSettled: the chunk is over with
\* the first task that fails
allOrFirstFailed ==
    \/ \A i \in DOMAIN tasks : tasks[i].pc = "done"
    \/ \E i \in DOMAIN tasks :
          tasks[i].pc = "done" /\ ~tasks[i].result.success

allSettled == \A i \in DOMAIN tasks : tasks[i].pc = "done"

\* Promise.allSettled of the chunk resolves: its results are appended in order
ChunkDone ==
    /\ pc = "chunk"
    /\ allSettled
    /\ results' = results \o [i \in 1..Len(tasks) |-> tasks[i].result]
    /\ chunkStart' = chunkStart + Len(tasks)
    /\ tasks' = <<>>
    /\ pc' = "dispatch"
    /\ UNCHANGED <<envVars, startTime, lambdaDeadline, emptyPolls, emptyRun, totalProcessed,
                   totalFailed, stoppedReason, wake, pollStart, batch, limiterVars,
                   processedMessages, sentCount, ackedCount, callVars, poolVars>>

(***************************************************************************)
(* The steps of one processMessage call (sendEmail, handleFailure, and the *)
(* catch block of processMessage).                                         *)
(***************************************************************************)
SetTask(i, t) == tasks' = [tasks EXCEPT ![i] = t]

\* the timer of waitIfNeeded fires
RateWaitDone(i) ==
    /\ tasks[i].pc = "rateWait"
    /\ now >= tasks[i].wake
    /\ \E random \in RandomPermille : SetTask(i, AfterWait(tasks[i], random))
    /\ UNCHANGED <<envVars, drainVars, limiterVars, processedMessages, sentCount, ackedCount, callVars, poolVars>>

\* the timer of the random delay fires: first transporter.sendMail
JitterDone(i) ==
    /\ tasks[i].pc = "jitter"
    /\ now >= tasks[i].wake
    /\ SetTask(i, [tasks[i] EXCEPT !.pc = "smtp", !.attempt = 1])
    /\ UNCHANGED <<envVars, drainVars, limiterVars, processedMessages, sentCount, ackedCount, callVars, poolVars>>

\* transporter.sendMail resolves
SmtpAccept(i) ==
    /\ tasks[i].pc = "smtp"
    /\ processedMessages' =
           MapSet(processedMessages, messageIdOf(tasks[i].msg), now)
    /\ sentCount' = sentCount + 1
    /\ domainCounters' =
           recordSendDomain(domainCounters, senderDomain(tasks[i].msg.to))
    /\ globalCounter' = Append(globalCounter, now)
    /\ SetTask(i, [tasks[i] EXCEPT !.pc = "delete", !.sendResult = "Sent"])
    /\ UNCHANGED <<envVars, drainVars, domainCooldowns, ackedCount, callVars, poolVars>>

\* the attempt test written attempt > maxRetries
givesUpOneLate(t, error) == ~isRetryableError(error) \/ t.attempt > maxRetries

\* the catch of the attempt loop says whether sendEmail gives up
givesUp(t, error) == ~isRetryableError(error) \/ t.attempt >= maxRetries

\* the cooldown test without its responseCode === 421 half
setsCooldownOnText(error) == error.message = "rate limit"

\* the rate-limit test of the give-up branch
setsCooldown(error) ==
    error.responseCode = 421 \/ error.message = "rate limit"

\* sendEmail returning the failure after marking the message as processed
SmtpRejectFinalMarks(i) ==
    /\ tasks[i].pc = "smtp"
    /\ \E error \in SmtpErrors :
          /\ givesUp(tasks[i], error)
          /\ domainCooldowns' =
                 IF setsCooldown(error)
                 THEN setDomainCooldown(domainCooldowns,
                                        senderDomain(tasks[i].msg.to), CooldownMs)
                 ELSE domainCooldowns
          /\ SetTask(i, handleFailure(
                 [tasks[i] EXCEPT
                    !.lastError = error,
                    !.rejections = @ + 1,
                    !.sendResult = IF isRetryableError(error)
                                   THEN "Retryable" ELSE "Permanent"],
                 isRetryableError(error), error.message))
    /\ processedMessages' =
           MapSet(processedMessages, messageIdOf(tasks[i].msg), now)
    /\ UNCHANGED <<envVars, drainVars, domainCounters, globalCounter,
                   sentCount, ackedCount, callVars, poolVars>>

\* transporter.sendMail rejects and sendEmail returns the failure
SmtpRejectFinal(i) ==
    /\ tasks[i].pc = "smtp"
    /\ \E error \in SmtpErrors :
          /\ givesUp(tasks[i], error)
          /\ domainCooldowns' =
                 IF setsCooldown(error)
                 THEN setDomainCooldown(domainCooldowns,
                                        senderDomain(tasks[i].msg.to), CooldownMs)
                 ELSE domainCooldowns
          /\ SetTask(i, handleFailure(
                 [tasks[i] EXCEPT
                    !.lastError = error,
                    !.rejections = @ + 1,
                    !.sendResult = IF isRetryableError(error)
                                   THEN "Retryable" ELSE "Permanent"],
                 isRetryableError(error), error.message))
    /\ UNCHANGED <<envVars, drainVars, domainCounters, globalCounter,
                   processedMessages, sentCount, ackedCount, callVars, poolVars>>

\* transporter.sendMail rejects and sendEmail sleeps before the next attempt
SmtpRejectRetry(i) ==
    /\ tasks[i].pc = "smtp"
    /\ \E error \in SmtpErrors, random \in RandomPermille :
          /\ ~givesUp(tasks[i], error)
          /\ SetTask(i, [tasks[i] EXCEPT
                 !.pc = "backoff",
                 !.lastError = error,
                 !.rejections = @ + 1,
                 !.wake = now + calculateBackoffDelay(tasks[i].attempt, random)])
    /\ UNCHANGED <<envVars, drainVars, limiterVars, processedMessages, sentCount, ackedCount, callVars, poolVars>>

\* the backoff timer fires: next transporter.sendMail
BackoffDone(i) ==
    /\ tasks[i].pc = "backoff"
    /\ now >= tasks[i].wake
    /\ SetTask(i, [tasks[i] EXCEPT !.pc = "smtp", !.attempt = @ + 1,
                                    !.backoffs = @ + 1])
    /\ UNCHANGED <<envVars, drainVars, limiterVars, processedMessages, sentCount, ackedCount, callVars, poolVars>>

\* an SQS call of a task succeeds (ok), or fails and counts as a fault
SqsOutcome(ok) ==
    /\ ok \/ faults < MaxFaults
    /\ faults' = IF ok THEN faults ELSE faults + 1
    /\ UNCHANGED <<now, ioTicks, fetched, dlqConfigured, maxConcurrency,
                   drainVars, limiterVars, processedMessages, sentCount, callVars, poolVars>>

\* deleteMessage after a successful sendEmail; its failure enters the catch
DeleteReply(i) ==
    /\ tasks[i].pc = "delete"
    /\ \E ok \in BOOLEAN :
          /\ SqsOutcome(ok)
          /\ ackedCount' = IF ok THEN ackedCount + 1 ELSE ackedCount
          /\ SetTask(i,
                 IF ok
                 THEN Finish([tasks[i] EXCEPT !.ackCalls = @ + 1, !.deleted = TRUE],
                             Result(TRUE, FALSE, FALSE, ""))
                 ELSE EnterDlq([tasks[i] EXCEPT !.ackCalls = @ + 1], TRUE))

\* sendToDLQ of handleFailure
DlqReply(i) ==
    /\ tasks[i].pc = "dlq"
    /\ \E ok \in BOOLEAN :
          /\ SqsOutcome(ok)
          /\ ackedCount' = ackedCount
          /\ SetTask(i,
                 IF ok
                 THEN [tasks[i] EXCEPT !.dlq = TRUE, !.pc = "dlqDelete"]
                 ELSE Finish(tasks[i],
                             Result(FALSE, TRUE, FALSE, tasks[i].lastError.message)))

\* deleteMessage of handleFailure
DlqDeleteReply(i) ==
    /\ tasks[i].pc = "dlqDelete"
    /\ \E ok \in BOOLEAN :
          /\ SqsOutcome(ok)
          /\ ackedCount' = ackedCount
          /\ SetTask(i, Finish([tasks[i] EXCEPT !.ackCalls = @ + 1,
                                                !.deleted = @ \/ ok],
                               Result(FALSE, TRUE, FALSE,
                                      tasks[i].lastError.message)))

\* sendToDLQ of processMessage's catch block
CatchDlqReply(i) ==
    /\ tasks[i].pc = "catchDlq"
    /\ \E ok \in BOOLEAN :
          /\ SqsOutcome(ok)
          /\ ackedCount' = ackedCount
          /\ SetTask(i,
                 IF ok
                 THEN [tasks[i] EXCEPT !.dlq = TRUE, !.pc = "catchDelete"]
                 ELSE Finish(tasks[i], Result(FALSE, FALSE, FALSE, "thrown")))

\* deleteMessage of processMessage's catch block
CatchDeleteReply(i) ==
    /\ tasks[i].pc = "catchDelete"
    /\ \E ok \in BOOLEAN :
          /\ SqsOutcome(ok)
          /\ ackedCount' = ackedCount
          /\ SetTask(i, Finish([tasks[i] EXCEPT !.ackCalls = @ + 1,
                                                !.deleted = @ \/ ok],
                               Result(FALSE, FALSE, FALSE, "thrown")))

(***************************************************************************)
(* The clock.                                                              *)
(***************************************************************************)
timers ==
    {tasks[i].wake : i \in {j \in DOMAIN tasks : tasks[j].pc \in TimerPcs}}
    \cup (IF pc \in {"sleep", "fetch"} THEN {wake} ELSE {})

ioPending == \E i \in DOMAIN tasks : tasks[i].pc \in IoPcs

\* code is running: no time passes
running ==
    pc \in {"loop", "dispatch", "done"} \/ (pc = "chunk" /\ allSettled)

SetMin(S) == CHOOSE x \in S : \A y \in S : x <= y

\* nothing happens until the next timer is due
TickTimer ==
    /\ ~running
    /\ timers # {}
    /\ \A w \in timers : w > now
    /\ SetMin(timers) <= MaxTime
    /\ now' = SetMin(timers)
    /\ UNCHANGED <<ioTicks, fetched, faults, dlqConfigured, maxConcurrency,
                   drainVars, tasks, limiterVars, processedMessages, sentCount, ackedCount, callVars, poolVars>>

\* an I/O call of a task takes IoLatency
TickIo(maxTicks) ==
    /\ ~running
    /\ ioPending
    /\ ioTicks < maxTicks
    /\ \A w \in timers : w > now + IoLatency
    /\ now + IoLatency <= MaxTime
    /\ now' = now + IoLatency
    /\ ioTicks' = ioTicks + 1
    /\ UNCHANGED <<fetched, faults, dlqConfigured, maxConcurrency, drainVars,
                   tasks, limiterVars, processedMessages, sentCount, ackedCount, callVars, poolVars>>

\* the steps of the processMessage calls
TaskStep(i) ==
    \/ RateWaitDone(i)
    \/ JitterDone(i)
    \/ SmtpAccept(i)
    \/ SmtpRejectFinal(i)
    \/ SmtpRejectRetry(i)
    \/ BackoffDone(i)
    \/ DeleteReply(i)
    \/ DlqReply(i)
    \/ DlqDeleteReply(i)
    \/ CatchDlqReply(i)
    \/ CatchDeleteReply(i)

\* the queue hands out any messages
FetchMessages ==
    \E k \in 1..(MaxMessages - fetched) :
        \E msgs \in [1..k -> Bodies] : FetchBatch(msgs)

Next ==
    \/ Loop
    \/ FetchMessages
    \/ FetchEmpty
    \/ FetchError
    \/ SleepDone
    \/ DispatchChunk
    \/ DispatchRefuse
    \/ DispatchReturn
    \/ ChunkDone
    \/ \E i \in DOMAIN tasks : TaskStep(i)
    \/ TickTimer

Spec == Init /\ [][Next]_vars

(***************************************************************************)
(* Runs that load the rate limiter: a backlog of RateMessages messages     *)
(* with different subjects, processQueue called without a context,         *)
(* maxConcurrency = RateConcurrency, every sendMail accepted and no SQS    *)
(* call failing.  The backlog goes to one gmail.com mailbox, or to         *)
(* mailboxes spread over the hosts of RateHosts.                           *)
(***************************************************************************)
RateHosts == <<"Example.ORG", "x.example", "y.example", "z.example">>

\* the recipients of the backlog, message by message
toGmail == [k \in 1..RateMessages |-> <<"a", "gmail.com">>]
toManyHosts ==
    [k \in 1..RateMessages |-> <<"u", RateHosts[(k % Len(RateHosts)) + 1]>>]

\* the k-th message of the backlog
RateMessage(k, to) ==
    [json |-> TRUE, to |-> to, subject |-> ToString(k), content |-> <<"h", "e">>]

InitRate ==
    /\ now = 0
    /\ ioTicks = 0
    /\ fetched = 0
    /\ faults = MaxFaults
    /\ dlqConfigured = TRUE
    /\ maxConcurrency = RateConcurrency
    /\ pc = "loop"
    /\ startTime = 0
    /\ lambdaDeadline = maxProcessingTime
    /\ emptyPolls = 0
    /\ emptyRun = 0
    /\ totalProcessed = 0
    /\ totalFailed = 0
    /\ stoppedReason = ""
    /\ wake = 0
    /\ pollStart = 0
    /\ batch = <<>>
    /\ chunkStart = 0
    /\ results = <<>>
    /\ tasks = <<>>
    /\ domainCounters = EmptyMap
    /\ globalCounter = <<>>
    /\ domainCooldowns = EmptyMap
    /\ processedMessages = EmptyMap
    /\ sentCount = 0
    /\ ackedCount = 0
    /\ callArgument = <<>>
    /\ callResult = <<>>
    /\ PoolIdle

\* receiveMessages returns at once with the next messages of the backlog
FetchBacklog(recipients) ==
    /\ fetched < RateMessages
    /\ now = pollStart
    /\ FetchBatch([k \in 1..Min2(Min2(batchSize, 10), RateMessages - fetched) |->
                      RateMessage(fetched + k, recipients[fetched + k])])

\* the backlog is exhausted: the long poll returns nothing
FetchDrained ==
    /\ fetched = RateMessages
    /\ FetchEmpty

RateStep(i) ==
    \/ RateWaitDone(i)
    \/ JitterDone(i)
    \/ SmtpAccept(i)
    \/ DeleteReply(i)

NextRate(recipients) ==
    \/ Loop
    \/ FetchBacklog(recipients)
    \/ FetchDrained
    \/ SleepDone
    \/ DispatchChunk
    \/ DispatchReturn
    \/ ChunkDone
    \/ \E i \in DOMAIN tasks : RateStep(i)
    \/ TickTimer
    \/ TickIo(RateIoTicks)

NextRateDomain == NextRate(toGmail)
NextRateGlobal == NextRate(toManyHosts)

SpecRateDomain == InitRate /\ [][NextRateDomain]_vars
SpecRateGlobal == InitRate /\ [][NextRateGlobal]_vars

(***************************************************************************)
(* handleFailure on its own: a chunk whose sendEmail calls have all        *)
(* returned a failure with isRetryable false.                              *)
(***************************************************************************)
\* the errors isRetryableError's last test names as permanent failures
HardBounces ==
    { SmtpError(550, "EENVELOPE", "no such user"),
      SmtpError(552, "EMESSAGE", "message too large") }

\* processMessage at its call of handleFailure, sendEmail having given up
\* on error at the given attempt with isRetryable false
FailedSend(msg, error, attempt) ==
    handleFailure([NewTask(msg) EXCEPT !.attempt = attempt,
                                       !.messageIdHeader = 1,
                                       !.lastError = error,
                                       !.rejections = attempt,
                                       !.backoffs = attempt - 1,
                                       !.sendResult = "Permanent"],
                  FALSE, error.message)

InitDeadLetter ==
    /\ now = 0
    /\ ioTicks = 0
    /\ faults = 0
    /\ dlqConfigured \in BOOLEAN
    /\ maxConcurrency \in ConcurrencySettings
    /\ pc = "chunk"
    /\ startTime = 0
    /\ lambdaDeadline = maxProcessingTime
    /\ emptyPolls = 0
    /\ emptyRun = 0
    /\ totalProcessed = 0
    /\ totalFailed = 0
    /\ stoppedReason = ""
    /\ wake = 0
    /\ pollStart = 0
    /\ batch \in [1..maxConcurrency -> {b \in Bodies : b.json}]
    /\ fetched = Len(batch)
    /\ chunkStart = 0
    /\ results = <<>>
    /\ \E errors \in [1..Len(batch) -> HardBounces],
          attempts \in [1..Len(batch) -> 1..maxRetries] :
          tasks = [i \in 1..Len(batch) |->
                      FailedSend(batch[i], errors[i], attempts[i])]
    /\ domainCounters = EmptyMap
    /\ globalCounter = <<>>
    /\ domainCooldowns = EmptyMap
    /\ processedMessages = EmptyMap
    /\ sentCount = 0
    /\ ackedCount = 0
    /\ callArgument = <<>>
    /\ callResult = <<>>
    /\ PoolIdle

NextDeadLetter ==
    \/ \E i \in DOMAIN tasks : DlqReply(i)
    \/ \E i \in DOMAIN tasks : DlqDeleteReply(i)
    \/ ChunkDone
    \/ DispatchReturn
    \/ TickIo(RateIoTicks)

SpecDeadLetter == InitDeadLetter /\ [][NextDeadLetter]_vars

(***************************************************************************)
(* The event-driven entry: processSQSEvent is handed the records of one    *)
(* SQS event, runs them through its own processMessagesWithConcurrency     *)
(* and reports the records SQS is to deliver again.  batch holds the       *)
(* records, tasks one processMessage call per record (not yet started      *)
(* while its chunk has not been entered) and results the results so far.   *)
(***************************************************************************)
eventMaxConcurrency == 10

\* the constructor's maxConcurrency, or what setMaxConcurrency was given
EventConcurrencySettings == ConcurrencySettings \cup {eventMaxConcurrency}

\* handleFailure of the event-driven processor: a retryable failure is
\* thrown, past the catch of processMessage, and Promise.allSettled turns
\* the rejection into a result without a permanent mark
eventHandleFailure(t, retryable, error) ==
    IF ~retryable
    THEN EnterDlq(t, FALSE)
    ELSE Finish(t, Result(FALSE, FALSE, FALSE, "Transient failure"))

\* the indexes of the records of the chunk the for loop is about to enter
eventChunk ==
    (chunkStart + 1)..Min2(chunkStart + maxConcurrency, Len(batch))

InitEvent ==
    /\ now = 0
    /\ ioTicks = 0
    /\ faults = 0
    /\ dlqConfigured \in BOOLEAN
    /\ maxConcurrency \in EventConcurrencySettings
    /\ pc = "event"
    /\ startTime = 0
    /\ lambdaDeadline = maxProcessingTime
    /\ emptyPolls = 0
    /\ emptyRun = 0
    /\ totalProcessed = 0
    /\ totalFailed = 0
    /\ stoppedReason = ""
    /\ wake = 0
    /\ pollStart = 0
    /\ \E k \in 1..MaxMessages : batch \in [1..k -> Bodies]
    /\ fetched = Len(batch)
    /\ chunkStart = 0
    /\ results = <<>>
    /\ tasks = [i \in 1..Len(batch) |-> NewTask(batch[i])]
    /\ domainCounters = EmptyMap
    /\ globalCounter = <<>>
    /\ domainCooldowns = EmptyMap
    /\ processedMessages = EmptyMap
    /\ sentCount = 0
    /\ ackedCount = 0
    /\ callArgument = <<>>
    /\ callResult = <<>>
    /\ PoolIdle

\* a chunk is entered: every processMessage of it runs up to its first await
EventDispatchChunk ==
    /\ pc = "event"
    /\ chunkStart < Len(batch)
    /\ \E randoms \in [eventChunk -> RandomPermille] :
          tasks' = [i \in DOMAIN tasks |->
                       IF i \in eventChunk
                       THEN StartTask(batch[i], randoms[i])
                       ELSE tasks[i]]
    /\ globalCounter' =
          IF \E i \in eventChunk :
                 batch[i].json /\ ~isAlreadyProcessed(messageIdOf(batch[i]))
          THEN prunedGlobal
          ELSE globalCounter
    /\ processedMessages' = afterIdempotencyChecks(processedMessages, chunkOf)
    /\ sentCount' = sentCount
    /\ pc' = "eventChunk"
    /\ UNCHANGED <<envVars, startTime, lambdaDeadline, emptyPolls, emptyRun, totalProcessed,
                   totalFailed, stoppedReason, wake, pollStart, batch, chunkStart,
                   results, domainCounters, domainCooldowns, ackedCount, callVars, poolVars>>

\* the results of a chunk put in front of the results so far
EventChunkDonePrepends ==
    /\ pc = "eventChunk"
    /\ \A i \in eventChunk : tasks[i].pc = "done"
    /\ results' = [k \in 1..Cardinality(eventChunk) |->
                      tasks[chunkStart + k].result] \o results
    /\ chunkStart' = chunkStart + Cardinality(eventChunk)
    /\ pc' = "event"
    /\ UNCHANGED <<envVars, startTime, lambdaDeadline, emptyPolls, emptyRun, totalProcessed,
                   totalFailed, stoppedReason, wake, pollStart, batch, tasks,
                   limiterVars, processedMessages, sentCount, ackedCount, callVars, poolVars>>

\* Promise.allSettled of the chunk resolves
EventChunkDone ==
    /\ pc = "eventChunk"
    /\ \A i \in eventChunk : tasks[i].pc = "done"
    /\ results' = results \o [k \in 1..Cardinality(eventChunk) |->
                                 tasks[chunkStart + k].result]
    /\ chunkStart' = chunkStart + Cardinality(eventChunk)
    /\ pc' = "event"
    /\ UNCHANGED <<envVars, startTime, lambdaDeadline, emptyPolls, emptyRun, totalProcessed,
                   totalFailed, stoppedReason, wake, pollStart, batch, tasks,
                   limiterVars, processedMessages, sentCount, ackedCount, callVars, poolVars>>

\* no chunk is left: processSQSEvent returns its summary
EventReturn ==
    /\ pc = "event"
    /\ chunkStart >= Len(batch)
    /\ totalProcessed' =
           Cardinality({i \in DOMAIN results : results[i].success})
    /\ totalFailed' =
           Cardinality({i \in DOMAIN results : ~results[i].success})
    /\ pc' = "eventDone"
    /\ UNCHANGED <<envVars, startTime, lambdaDeadline, emptyPolls, emptyRun, stoppedReason,
                   wake, pollStart, batch, chunkStart, results, tasks,
                   limiterVars, processedMessages, sentCount, ackedCount, callVars, poolVars>>

\* the records of the summary's batchItemFailures, by their index
batchItemFailures ==
    {i \in DOMAIN results : ~results[i].success /\ ~results[i].permanent}

\* transporter.sendMail rejects and sendEmail returns the failure
EventRejectFinal(i) ==
    /\ tasks[i].pc = "smtp"
    /\ \E error \in SmtpErrors :
          /\ givesUp(tasks[i], error)
          /\ domainCooldowns' =
                 IF setsCooldown(error)
                 THEN setDomainCooldown(domainCooldowns,
                                        senderDomain(tasks[i].msg.to), CooldownMs)
                 ELSE domainCooldowns
          /\ SetTask(i, eventHandleFailure(
                 [tasks[i] EXCEPT
                    !.lastError = error,
                    !.rejections = @ + 1,
                    !.sendResult = IF isRetryableError(error)
                                   THEN "Retryable" ELSE "Permanent"],
                 isRetryableError(error), error.message))
    /\ UNCHANGED <<envVars, drainVars, domainCounters, globalCounter,
                   processedMessages, sentCount, ackedCount, callVars, poolVars>>

EventStep(i) ==
    \/ RateWaitDone(i)
    \/ JitterDone(i)
    \/ SmtpAccept(i)
    \/ EventRejectFinal(i)
    \/ SmtpRejectRetry(i)
    \/ BackoffDone(i)
    \/ DeleteReply(i)
    \/ DlqReply(i)
    \/ DlqDeleteReply(i)
    \/ CatchDlqReply(i)
    \/ CatchDeleteReply(i)

NextEvent ==
    \/ EventDispatchChunk
    \/ EventChunkDone
    \/ EventReturn
    \/ \E i \in DOMAIN tasks : EventStep(i)
    \/ TickTimer

SpecEvent == InitEvent /\ [][NextEvent]_vars

(***************************************************************************)
(* Drains that end either way: processQueue entered with 10 s or with 70 s *)
(* to its deadline, every sendMail accepted.                               *)
(***************************************************************************)
\* context.getRemainingTimeInMillis() at entry
DrainRemaining == {70000, 130000}

InitDrain ==
    /\ now = 0
    /\ ioTicks = 0
    /\ fetched = 0
    /\ faults = 0
    /\ dlqConfigured = TRUE
    /\ maxConcurrency \in ConcurrencySettings
    /\ pc = "loop"
    /\ startTime = 0
    /\ \E r \in DrainRemaining : lambdaDeadline = r - DeadlineBuffer
    /\ emptyPolls = 0
    /\ emptyRun = 0
    /\ totalProcessed = 0
    /\ totalFailed = 0
    /\ stoppedReason = ""
    /\ wake = 0
    /\ pollStart = 0
    /\ batch = <<>>
    /\ chunkStart = 0
    /\ results = <<>>
    /\ tasks = <<>>
    /\ domainCounters = EmptyMap
    /\ globalCounter = <<>>
    /\ domainCooldowns = EmptyMap
    /\ processedMessages = EmptyMap
    /\ sentCount = 0
    /\ ackedCount = 0
    /\ callArgument = <<>>
    /\ callResult = <<>>
    /\ PoolIdle

NextDrain ==
    \/ Loop
    \/ FetchMessages
    \/ FetchEmpty
    \/ FetchError
    \/ SleepDone
    \/ DispatchChunk
    \/ DispatchRefuse
    \/ DispatchReturn
    \/ ChunkDone
    \/ \E i \in DOMAIN tasks : RateStep(i)
    \/ TickTimer

SpecDrain == InitDrain /\ [][NextDrain]_vars

(***************************************************************************)
(* Drains of a queue that never runs out of messages, under fairness: the  *)
(* event loop runs every callback that is ready, and the clock advances to *)
(* the next timer.                                                         *)
(***************************************************************************)
\* receiveMessages returns one more message, however many came before
FetchMore == \E msgs \in [1..1 -> Bodies] : FetchBatch(msgs)

NextDrainFair ==
    \/ Loop
    \/ FetchMore
    \/ FetchEmpty
    \/ FetchError
    \/ SleepDone
    \/ DispatchChunk
    \/ DispatchRefuse
    \/ DispatchReturn
    \/ ChunkDone
    \/ \E i \in DOMAIN tasks : TaskStep(i)
    \/ TickTimer

\* context.getRemainingTimeInMillis() at entry: the run has 6 s
FairRemaining == {66000}

InitDrainFair ==
    /\ now = 0
    /\ ioTicks = 0
    /\ fetched = 0
    /\ faults = 0
    /\ dlqConfigured \in BOOLEAN
    /\ maxConcurrency \in ConcurrencySettings
    /\ pc = "loop"
    /\ startTime = 0
    /\ \E r \in FairRemaining : lambdaDeadline = r - DeadlineBuffer
    /\ emptyPolls = 0
    /\ emptyRun = 0
    /\ totalProcessed = 0
    /\ totalFailed = 0
    /\ stoppedReason = ""
    /\ wake = 0
    /\ pollStart = 0
    /\ batch = <<>>
    /\ chunkStart = 0
    /\ results = <<>>
    /\ tasks = <<>>
    /\ domainCounters = EmptyMap
    /\ globalCounter = <<>>
    /\ domainCooldowns = EmptyMap
    /\ processedMessages = EmptyMap
    /\ sentCount = 0
    /\ ackedCount = 0
    /\ callArgument = <<>>
    /\ callResult = <<>>
    /\ PoolIdle

SpecDrainFair ==
    InitDrainFair /\ [][NextDrainFair]_vars /\ WF_vars(NextDrainFair)

(***************************************************************************)
(* Runs against a slow SMTP server: a transporter.sendMail call may take   *)
(* SlowSmtpLatency before it resolves or rejects.                          *)
(***************************************************************************)
\* time passes while a sendMail call is outstanding
TickSlowSmtp ==
    /\ ~running
    /\ \E i \in DOMAIN tasks : tasks[i].pc = "smtp"
    /\ ioTicks < SlowSmtpTicks
    /\ \A w \in timers : w > now + SlowSmtpLatency
    /\ now + SlowSmtpLatency <= MaxTime
    /\ now' = now + SlowSmtpLatency
    /\ ioTicks' = ioTicks + 1
    /\ UNCHANGED <<fetched, faults, dlqConfigured, maxConcurrency, drainVars,
                   tasks, limiterVars, processedMessages, sentCount, ackedCount, callVars, poolVars>>

NextSlowSmtp ==
    \/ Loop
    \/ FetchMessages
    \/ FetchEmpty
    \/ FetchError
    \/ SleepDone
    \/ DispatchChunk
    \/ DispatchRefuse
    \/ DispatchReturn
    \/ ChunkDone
    \/ \E i \in DOMAIN tasks : TaskStep(i)
    \/ TickTimer
    \/ TickSlowSmtp

SpecSlowSmtp == Init /\ [][NextSlowSmtp]_vars

(***************************************************************************)
(* A batch that ends every way: a backlog of four messages, the third a    *)
(* copy of the first, processQueue called without a context and with       *)
(* maxConcurrency = 1, sendMail accepting or rejecting, no SQS call        *)
(* failing.                                                                *)
(***************************************************************************)
FrameBacklog ==
    << RateMessage(1, <<"u", "x.example">>),
       RateMessage(2, <<"a", "gmail.com">>),
       RateMessage(1, <<"u", "x.example">>),
       RateMessage(3, <<"u", "x.example">>) >>

InitFrame ==
    /\ now = 0
    /\ ioTicks = 0
    /\ fetched = 0
    /\ faults = MaxFaults
    /\ dlqConfigured = TRUE
    /\ maxConcurrency = 1
    /\ pc = "loop"
    /\ startTime = 0
    /\ lambdaDeadline = maxProcessingTime
    /\ emptyPolls = 0
    /\ emptyRun = 0
    /\ totalProcessed = 0
    /\ totalFailed = 0
    /\ stoppedReason = ""
    /\ wake = 0
    /\ pollStart = 0
    /\ batch = <<>>
    /\ chunkStart = 0
    /\ results = <<>>
    /\ tasks = <<>>
    /\ domainCounters = EmptyMap
    /\ globalCounter = <<>>
    /\ domainCooldowns = EmptyMap
    /\ processedMessages = EmptyMap
    /\ sentCount = 0
    /\ ackedCount = 0
    /\ callArgument = <<>>
    /\ callResult = <<>>
    /\ PoolIdle

\* receiveMessages returns the backlog at once
FetchFrame ==
    /\ fetched = 0
    /\ now = pollStart
    /\ FetchBatch(FrameBacklog)

\* the backlog is gone: the long poll returns nothing
FetchNothingMore ==
    /\ fetched = Len(FrameBacklog)
    /\ FetchEmpty

NextFrame ==
    \/ Loop
    \/ FetchFrame
    \/ FetchNothingMore
    \/ SleepDone
    \/ DispatchChunk
    \/ DispatchReturn
    \/ ChunkDone
    \/ \E i \in DOMAIN tasks : TaskStep(i)
    \/ TickTimer

SpecFrame == InitFrame /\ [][NextFrame]_vars

(***************************************************************************)
(* The attempt loop of sendEmail with its jitter: one message, processQueue *)
(* called without a context and with maxConcurrency = 1, sendMail accepting *)
(* or rejecting, Math.random() of the backoff drawn from BackoffRandoms, no *)
(* SQS call failing.                                                        *)
(***************************************************************************)
\* Math.random() in calculateBackoffDelay, in thousandths: 0, 0.5 and 0.999
BackoffRandoms == {0, 500, 999}

RetryBacklog == << RateMessage(1, <<"a", "gmail.com">>) >>

\* receiveMessages returns the message at once
FetchRetry ==
    /\ fetched = 0
    /\ now = pollStart
    /\ FetchBatch(RetryBacklog)

\* the message is gone: the long poll returns nothing
FetchRetryDrained ==
    /\ fetched = Len(RetryBacklog)
    /\ FetchEmpty

\* transporter.sendMail rejects and sendEmail sleeps before the next attempt
SmtpRejectRetryRandom(i) ==
    /\ tasks[i].pc = "smtp"
    /\ \E error \in SmtpErrors, random \in BackoffRandoms :
          /\ ~givesUp(tasks[i], error)
          /\ SetTask(i, [tasks[i] EXCEPT
                 !.pc = "backoff",
                 !.lastError = error,
                 !.rejections = @ + 1,
                 !.wake = now + calculateBackoffDelay(tasks[i].attempt, random)])
    /\ UNCHANGED <<envVars, drainVars, limiterVars, processedMessages, sentCount, ackedCount, callVars, poolVars>>

RetryStep(i) ==
    \/ RateWaitDone(i)
    \/ JitterDone(i)
    \/ SmtpAccept(i)
    \/ SmtpRejectFinal(i)
    \/ SmtpRejectRetryRandom(i)
    \/ BackoffDone(i)
    \/ DeleteReply(i)
    \/ DlqReply(i)
    \/ DlqDeleteReply(i)
    \/ CatchDlqReply(i)
    \/ CatchDeleteReply(i)

NextRetry ==
    \/ Loop
    \/ FetchRetry
    \/ FetchRetryDrained
    \/ SleepDone
    \/ DispatchChunk
    \/ DispatchReturn
    \/ ChunkDone
    \/ \E i \in DOMAIN tasks : RetryStep(i)
    \/ TickTimer

SpecRetry == InitFrame /\ [][NextRetry]_vars

(***************************************************************************)
(* Runs that load the rate limiter with recipients that hold no '@': the   *)
(* backlog of RateMessages messages goes to the address "nobody",          *)
(* processQueue is called without a context and with maxConcurrency = 1,   *)
(* every sendMail is accepted and no SQS call fails.                       *)
(***************************************************************************)
toNobody == [k \in 1..RateMessages |-> <<"nobody">>]

NextRateUnknown == NextRate(toNobody)

SpecRateUnknown == InitFrame /\ [][NextRateUnknown]_vars

(***************************************************************************)
(* SQSService.parseMessage called on its own, on every message of          *)
(* SqsMessages.  A JavaScript value is a string here, undefined and null   *)
(* are two strings of their own, an object is a record of its properties   *)
(* (undefined where it has none), and a JSON text is the sequence of its   *)
(* members, each a name and a string.                                      *)
(***************************************************************************)
Undefined == "<undefined>"

\* an object where a string is expected
AnObject == "<object>"

\* a || b
Truthy(v) == v \notin {Undefined, Null, ""}
Or(a, b) == IF Truthy(a) THEN a ELSE b

\* the properties parseMessage reads from the parsed body
BodyFields == <<"to", "subject", "content", "html", "text", "body", "contentType">>

\* JSON.stringify of an object of strings: a member for every property that
\* is not undefined
JSONstringify(obj) ==
    [valid |-> TRUE,
     members |-> LET pair(k) == <<BodyFields[k], obj[BodyFields[k]]>>
                     pairs == [k \in 1..Len(BodyFields) |-> pair(k)]
                 IN  SelectSeq(pairs, LAMBDA m : m[2] # Undefined)]

\* a text that is not JSON
NotJson == [valid |-> FALSE, members |-> <<>>]

\* JSON.parse of the text of an object: a name has the string of its last
\* member, a name without a member reads as undefined
JSONparse(text) ==
    [name \in {BodyFields[k] : k \in 1..Len(BodyFields)} |->
        LET at == {k \in 1..Len(text.members) : text.members[k][1] = name}
        IN  IF at = {}
            THEN Undefined
            ELSE text.members[CHOOSE k \in at : \A j \in at : j <= k][2]]

\* the objects that are enqueued as message bodies
BodyObjects ==
    [to : {Undefined, "", "a@gmail.com"},
     subject : {Undefined, "", "hi"},
     content : {Undefined, "", "<p>c</p>"},
     html : {Undefined, "", "<p>h</p>"},
     text : {Undefined, "", "t"},
     body : {Undefined, "", "b"},
     contentType : {Undefined, "", "html", "text"}]

\* a message attribute as receiveMessages returns it: none, a string value
\* under StringValue or under stringValue, or a binary value
NoAttribute ==
    [present |-> FALSE, StringValue |-> Undefined, stringValue |-> Undefined]
Attributes(value) ==
    { NoAttribute,
      [present |-> TRUE, StringValue |-> value, stringValue |-> Undefined],
      [present |-> TRUE, StringValue |-> Undefined, stringValue |-> value],
      [present |-> TRUE, StringValue |-> Undefined, stringValue |-> Undefined] }

SqsMessages ==
    [Body : {JSONstringify(obj) : obj \in BodyObjects},
     MessageAttributes : [to : Attributes("x@attr.example"),
                          subject : Attributes("from attribute")]]
    \cup {[Body |-> NotJson,
           MessageAttributes |-> [to |-> NoAttribute, subject |-> NoAttribute]]}

getAttributeValue(attr) ==
    IF ~attr.present
    THEN Null
    ELSE Or(Or(attr.StringValue, attr.stringValue), AnObject)

\* what parseMessage throws
InvalidMessageFormat ==
    [threw |-> TRUE, to |-> Undefined, subject |-> Undefined,
     content |-> Undefined, contentType |-> Undefined]

parseMessage(sqsMessage) ==
    IF ~sqsMessage.Body.valid
    THEN InvalidMessageFormat
    ELSE LET body == JSONparse(sqsMessage.Body)
             attributes == sqsMessage.MessageAttributes
         IN  [threw |-> FALSE,
              to |-> Or(getAttributeValue(attributes.to), body.to),
              subject |-> Or(getAttributeValue(attributes.subject), body.subject),
              content |-> Or(Or(Or(body.content, body.html), body.text), body.body),
              contentType |->
                  Or(body.contentType,
                     IF Truthy(body.html) THEN "html" ELSE "text")]

\* the state before a function is called on its own with one of arguments
CallInit(arguments) ==
    /\ now = 0
    /\ ioTicks = 0
    /\ fetched = 0
    /\ faults = 0
    /\ dlqConfigured = TRUE
    /\ maxConcurrency = 1
    /\ pc = "call"
    /\ startTime = 0
    /\ lambdaDeadline = maxProcessingTime
    /\ emptyPolls = 0
    /\ emptyRun = 0
    /\ totalProcessed = 0
    /\ totalFailed = 0
    /\ stoppedReason = ""
    /\ wake = 0
    /\ pollStart = 0
    /\ batch = <<>>
    /\ chunkStart = 0
    /\ results = <<>>
    /\ tasks = <<>>
    /\ domainCounters = EmptyMap
    /\ globalCounter = <<>>
    /\ domainCooldowns = EmptyMap
    /\ processedMessages = EmptyMap
    /\ sentCount = 0
    /\ ackedCount = 0
    /\ callArgument \in arguments
    /\ callResult = <<>>
    /\ PoolIdle

\* the call returns value
Return(value) ==
    /\ pc = "call"
    /\ callResult' = <<value>>
    /\ pc' = "returned"
    /\ UNCHANGED <<envVars, startTime, lambdaDeadline, emptyPolls, emptyRun,
                   totalProcessed, totalFailed, stoppedReason, wake, pollStart,
                   batch, chunkStart, results, tasks, limiterVars,
                   processedMessages, sentCount, ackedCount, callArgument,
                   poolVars>>

InitParse == CallInit({<<sqsMessage>> : sqsMessage \in SqsMessages})

\* the call returns or throws
ParseMessageCall ==
    /\ callArgument[1] \in SqsMessages
    /\ Return(parseMessage(callArgument[1]))

NextParse == ParseMessageCall

SpecParse == InitParse /\ [][NextParse]_vars

(***************************************************************************)
(* EmailService.isRetryableError called on its own, on every error of      *)
(* ClassifiedErrors.                                                       *)
(***************************************************************************)
\* error objects: responseCode (0: the error has none), code, and what the
\* message holds
ClassifiedErrors ==
    [responseCode : {0, 400, 421, 450, 451, 452, 454, 499,
                     500, 503, 550, 551, 552, 554, 599},
     code : {"", "ETIMEDOUT", "ECONNRESET", "ENOTFOUND", "ECONNREFUSED",
             "EENVELOPE"},
     message : {"", "rate limit", "too many", "temporarily deferred", "quota",
                "exceeded", "no such user"}]

InitClassify == CallInit({<<error>> : error \in ClassifiedErrors})

\* the call returns true or false
IsRetryableErrorCall ==
    /\ callArgument[1] \in ClassifiedErrors
    /\ Return(isRetryableError(callArgument[1]))

NextClassify == IsRetryableErrorCall

SpecClassify == InitClassify /\ [][NextClassify]_vars

(***************************************************************************)
(* The idempotency window: processedMessages holds an entry for the        *)
(* fingerprint of a message, stored about 24 h before the run; the queue   *)
(* hands out copies of that message one at a time, sendMail accepts or     *)
(* rejects and no SQS call fails.  The hourly timer of the service         *)
(* (startCleanupInterval) may fire between any two callbacks.              *)
(***************************************************************************)
\* Date.now() - processedAt of the stored entry when the run starts
StoredAges ==
    { idempotencyWindow - 100, idempotencyWindow - 1, idempotencyWindow,
      idempotencyWindow + 1 }

\* the copies of the message the queue hands out
IdempotencyCopies == 2

IdempotentMessage == RateMessage(1, <<"a", "gmail.com">>)

InitIdempotency ==
    /\ now = 0
    /\ ioTicks = 0
    /\ fetched = 0
    /\ faults = MaxFaults
    /\ dlqConfigured = TRUE
    /\ maxConcurrency = 1
    /\ pc = "loop"
    /\ startTime = 0
    /\ lambdaDeadline = maxProcessingTime
    /\ emptyPolls = 0
    /\ emptyRun = 0
    /\ totalProcessed = 0
    /\ totalFailed = 0
    /\ stoppedReason = ""
    /\ wake = 0
    /\ pollStart = 0
    /\ batch = <<>>
    /\ chunkStart = 0
    /\ results = <<>>
    /\ tasks = <<>>
    /\ domainCounters = EmptyMap
    /\ globalCounter = <<>>
    /\ domainCooldowns = EmptyMap
    /\ \E age \in StoredAges :
          processedMessages =
              MapSet(EmptyMap, messageIdOf(IdempotentMessage), now - age)
    /\ sentCount = 0
    /\ ackedCount = 0
    /\ callArgument = <<>>
    /\ callResult = <<>>
    /\ PoolIdle

\* receiveMessages returns the next copy at once
FetchCopy ==
    /\ fetched < IdempotencyCopies
    /\ now = pollStart
    /\ FetchBatch(<< IdempotentMessage >>)

\* the copies are gone: the long poll returns nothing
FetchCopiesDrained ==
    /\ fetched = IdempotencyCopies
    /\ FetchEmpty

\* cleanupProcessedMessages deleting the entries as old as the window too
cleanupProcessedMessagesInclusive(processed) ==
    [id \in {i \in DOMAIN processed : ~(now - processed[i] >= idempotencyWindow - 1)}
        |-> processed[id]]

\* processedMessages after cleanupProcessedMessages
cleanupProcessedMessages(processed) ==
    [id \in {i \in DOMAIN processed : ~(now - processed[i] > idempotencyWindow)}
        |-> processed[id]]

\* the hourly timer calls cleanupProcessedMessages
CleanupProcessedMessages ==
    /\ processedMessages' = cleanupProcessedMessages(processedMessages)
    /\ UNCHANGED <<envVars, drainVars, tasks, limiterVars, sentCount, ackedCount, callVars, poolVars>>

IdempotencyStep(i) ==
    \/ JitterDone(i)
    \/ SmtpAccept(i)
    \/ SmtpRejectFinal(i)
    \/ SmtpRejectRetry(i)
    \/ BackoffDone(i)
    \/ DeleteReply(i)

NextIdempotency ==
    \/ Loop
    \/ FetchCopy
    \/ FetchCopiesDrained
    \/ SleepDone
    \/ DispatchChunk
    \/ DispatchReturn
    \/ ChunkDone
    \/ \E i \in DOMAIN tasks : IdempotencyStep(i)
    \/ TickTimer
    \/ CleanupProcessedMessages

SpecIdempotency == InitIdempotency /\ [][NextIdempotency]_vars

(***************************************************************************)
(* The cleanup timer of the rate limiter (setInterval in its constructor,  *)
(* and the timer of startCleanupInterval): cleanup may run between any two *)
(* callbacks of a drain.  A backlog of CleanupMessages messages to one     *)
(* gmail.com mailbox, processQueue called without a context and with       *)
(* maxConcurrency = 1, sendMail accepting or rejecting, no SQS call        *)
(* failing.                                                                *)
(***************************************************************************)
CleanupMessages == 5

CleanupBacklog ==
    [k \in 1..CleanupMessages |-> RateMessage(k, <<"a", "gmail.com">>)]

\* receiveMessages returns the backlog at once
FetchCleanupBacklog ==
    /\ fetched = 0
    /\ now = pollStart
    /\ FetchBatch(CleanupBacklog)

\* the backlog is gone: the long poll returns nothing
FetchCleanupDrained ==
    /\ fetched = Len(CleanupBacklog)
    /\ FetchEmpty

\* cleanup keeping the timestamps of the last second only
cleanupDomainCountersOneSecond(counters) ==
    [d \in {x \in DOMAIN counters : After(counters[x], now - OneSecond) # <<>>}
        |-> After(counters[d], now - OneSecond)]

\* domainCounters after cleanup: the timestamps of the last two minutes,
\* and no counter for a domain that has none
cleanupDomainCounters(counters) ==
    [d \in {x \in DOMAIN counters : After(counters[x], now - CleanupAge) # <<>>}
        |-> After(counters[d], now - CleanupAge)]

\* domainCooldowns after cleanup
cleanupCooldowns(cooldowns) ==
    [d \in {x \in DOMAIN cooldowns : ~(now >= cooldowns[x])} |-> cooldowns[d]]

\* the timer calls RateLimiterService.cleanup
Cleanup ==
    /\ domainCounters' = cleanupDomainCounters(domainCounters)
    /\ globalCounter' = After(globalCounter, now - OneMinute)
    /\ domainCooldowns' = cleanupCooldowns(domainCooldowns)
    /\ UNCHANGED <<envVars, drainVars, tasks, processedMessages, sentCount, ackedCount, callVars, poolVars>>

NextCleanup ==
    \/ Loop
    \/ FetchCleanupBacklog
    \/ FetchCleanupDrained
    \/ SleepDone
    \/ DispatchChunk
    \/ DispatchReturn
    \/ ChunkDone
    \/ \E i \in DOMAIN tasks : TaskStep(i)
    \/ TickTimer
    \/ Cleanup

SpecCleanup == InitFrame /\ [][NextCleanup]_vars

(***************************************************************************)
(* The standalone worker pool (WorkerPoolService, started by               *)
(* SMTPEmailService.start): the poller fetches batches into messageQueue,  *)
(* the workers take messages from it and process them.  start, stop,       *)
(* pause, resume and setMaxWorkers are called from outside at any time,    *)
(* MaxPoolCalls times in all.  A sleep ends at any time after it began; a  *)
(* message is its number in the order of the source queue, which hands     *)
(* out PoolMessages messages and each of them once.  processMessage is     *)
(* one pending call that settles: it never rejects, since its catch block  *)
(* catches what its try throws and handleFailure is not awaited            *)
(* (part_002:465-531); the counters of getStats are left out.              *)
(***************************************************************************)
PoolBatchSize == 2
PoolQueueSize == 2
PoolMessages == 4
MaxPoolCalls == 3

\* the options the pool is constructed with
PoolOptions ==
    [maxWorkers : {1, 2}, batchSize : {PoolBatchSize},
     maxQueueSize : {PoolQueueSize}]

\* the arguments setMaxWorkers is called with
WorkerCounts == {0, 2}

\* what the pool leaves alone: the state of the cron drainer and the sender
cronVars ==
    <<drainVars, tasks, limiterVars, processedMessages, sentCount, ackedCount,
      callVars>>

InitPool ==
    /\ now = 0
    /\ ioTicks = 0
    /\ fetched = 0
    /\ faults = 0
    /\ dlqConfigured = TRUE
    /\ maxConcurrency = 1
    /\ pc = "standalone"
    /\ startTime = 0
    /\ lambdaDeadline = maxProcessingTime
    /\ emptyPolls = 0
    /\ emptyRun = 0
    /\ totalProcessed = 0
    /\ totalFailed = 0
    /\ stoppedReason = ""
    /\ wake = 0
    /\ pollStart = 0
    /\ batch = <<>>
    /\ chunkStart = 0
    /\ results = <<>>
    /\ tasks = <<>>
    /\ domainCounters = EmptyMap
    /\ globalCounter = <<>>
    /\ domainCooldowns = EmptyMap
    /\ processedMessages = EmptyMap
    /\ sentCount = 0
    /\ ackedCount = 0
    /\ callArgument = <<>>
    /\ callResult = <<>>
    /\ \E options \in PoolOptions : Constructed(options)

RemoveAt(seq, k) == SubSeq(seq, 1, k - 1) \o SubSeq(seq, k + 1, Len(seq))

\* a processWorker call: where it stands and the message it is processing
\* (0: none)
Worker(workerId, at, message) ==
    [workerId |-> workerId, pc |-> at, message |-> message]

\* one turn of processWorker's loop, from the test of the while to the await
\* it stops at: the worker returns, or sleeps (paused, or nothing queued), or
\* takes the first message of messageQueue and awaits processMessage
workerTurn(pool, workerId) ==
    IF ~pool.isRunning
    THEN [pool |-> pool, worker |-> Worker(workerId, "returned", 0)]
    ELSE IF pool.pauseProcessing \/ pool.messageQueue = <<>>
    THEN [pool |-> pool, worker |-> Worker(workerId, "sleep", 0)]
    ELSE [pool |-> [pool EXCEPT !.messageQueue = Tail(@),
                                !.activeWorkers = @ + 1],
          worker |-> Worker(workerId, "processMessage",
                            Head(pool.messageQueue))]

\* how often message was taken from messageQueue
timesHanded(h, message) == IF message \in DOMAIN h THEN h[message] ELSE 0

\* the history after a turn of a worker
handedAfter(h, worker) ==
    IF worker.pc = "processMessage"
    THEN MapSet(h, worker.message, timesHanded(h, worker.message) + 1)
    ELSE h

\* the workers after the turn of one that is the k-th of them (a new one
\* when k is 0)
workersAfter(ws, k, worker) ==
    IF worker.pc = "returned"
    THEN (IF k = 0 THEN ws ELSE RemoveAt(ws, k))
    ELSE (IF k = 0 THEN Append(ws, worker) ELSE [ws EXCEPT ![k] = worker])

\* this.processWorker(i) for i from first to below last: every call runs
\* to its first await before the next is made
RECURSIVE processWorkers(_, _, _)
processWorkers(s, first, last) ==
    IF first >= last
    THEN s
    ELSE LET turn == workerTurn(s.pool, first)
         IN  processWorkers([pool |-> turn.pool,
                             workers |-> workersAfter(s.workers, 0, turn.worker),
                             handed |-> handedAfter(s.handed, turn.worker)],
                            first + 1, last)

startWorkers(s) == processWorkers(s, 0, s.pool.maxWorkers)

\* one turn of startPolling's loop, from the test of the while to the await
\* it stops at
pollerTurn(pool) ==
    IF ~pool.isRunning THEN "returned"
    ELSE IF pool.pauseProcessing THEN "sleep"
    ELSE IF Len(pool.messageQueue) >= pool.maxQueueSize THEN "sleep"
    ELSE "receiveMessages"

pollersAfter(ps, k, at) ==
    IF at = "returned"
    THEN (IF k = 0 THEN ps ELSE RemoveAt(ps, k))
    ELSE (IF k = 0 THEN Append(ps, at) ELSE [ps EXCEPT ![k] = at])

\* a poller that pushes every message it fetched
RECURSIVE addMessagesUnguarded(_, _, _)
addMessagesUnguarded(queue, messages, maxQueueSize) ==
    IF messages = <<>>
    THEN queue
    ELSE addMessagesUnguarded(Append(queue, Head(messages)), Tail(messages),
                              maxQueueSize)

\* the for loop of startPolling over the fetched messages: a message is
\* pushed when messageQueue is below maxQueueSize, and left out otherwise
RECURSIVE addMessages(_, _, _)
addMessages(queue, messages, maxQueueSize) ==
    IF messages = <<>>
    THEN queue
    ELSE addMessages(IF Len(queue) < maxQueueSize
                     THEN Append(queue, Head(messages))
                     ELSE queue,
                     Tail(messages), maxQueueSize)

\* a call from outside
PoolCall ==
    /\ poolCalls < MaxPoolCalls
    /\ poolCalls' = poolCalls + 1

PoolBecomes(s) ==
    /\ workerPool' = s.pool
    /\ workers' = s.workers
    /\ handed' = s.handed

\* start(): nothing when the pool is running; otherwise the flags are set,
\* the workers are started and then the poller
Start ==
    /\ PoolCall
    /\ IF workerPool.isRunning
       THEN UNCHANGED <<workerPool, pollers, workers, handed>>
       ELSE LET s == startWorkers(
                        [pool |-> [workerPool EXCEPT !.isRunning = TRUE,
                                                     !.pauseProcessing = FALSE],
                         workers |-> workers,
                         handed |-> handed])
            IN  /\ PoolBecomes(s)
                /\ pollers' = pollersAfter(pollers, 0, pollerTurn(s.pool))
    /\ UNCHANGED <<envVars, cronVars, dropped>>

\* stop(): the flags are set; the loop that follows waits for activeWorkers
\* to reach 0, 30 s at most, and changes nothing
Stop ==
    /\ PoolCall
    /\ workerPool' = [workerPool EXCEPT !.isRunning = FALSE,
                                        !.pauseProcessing = TRUE]
    /\ UNCHANGED <<envVars, cronVars, pollers, workers, dropped, handed>>

Pause ==
    /\ PoolCall
    /\ workerPool' = [workerPool EXCEPT !.pauseProcessing = TRUE]
    /\ UNCHANGED <<envVars, cronVars, pollers, workers, dropped, handed>>

Resume ==
    /\ PoolCall
    /\ workerPool' = [workerPool EXCEPT !.pauseProcessing = FALSE]
    /\ UNCHANGED <<envVars, cronVars, pollers, workers, dropped, handed>>

\* setMaxWorkers(count): maxWorkers becomes count brought into 1..50; when
\* that is more than before and the pool is running, the workers from the
\* old count on are started
SetMaxWorkers ==
    /\ PoolCall
    /\ \E count \in WorkerCounts :
          LET oldCount == workerPool.maxWorkers
              resized == [workerPool EXCEPT
                             !.maxWorkers = Max2(1, Min2(count, 50))]
          IN  PoolBecomes(
                  IF resized.maxWorkers > oldCount /\ resized.isRunning
                  THEN processWorkers([pool |-> resized, workers |-> workers,
                                       handed |-> handed],
                                      oldCount, resized.maxWorkers)
                  ELSE [pool |-> resized, workers |-> workers,
                        handed |-> handed])
    /\ UNCHANGED <<envVars, cronVars, pollers, dropped>>

\* a sleep of the poller ends
PollerWake(k) ==
    /\ pollers[k] = "sleep"
    /\ pollers' = pollersAfter(pollers, k, pollerTurn(workerPool))
    /\ UNCHANGED <<envVars, cronVars, workerPool, workers, poolCalls, dropped,
                   handed>>

\* receiveMessages(batchSize, 20) resolves with the next count messages of
\* the source queue: none and the poller sleeps 100 ms, otherwise they go
\* through the for loop and the poller sleeps 50 ms
FetchReply(k) ==
    /\ pollers[k] = "receiveMessages"
    /\ \E count \in 0..Min2(MaxNumberOfMessages(workerPool.batchSize),
                            PoolMessages - fetched) :
          LET messages == [i \in 1..count |-> fetched + i]
              queue == addMessages(workerPool.messageQueue, messages,
                                   workerPool.maxQueueSize)
          IN  /\ fetched' = fetched + count
              /\ workerPool' = [workerPool EXCEPT !.messageQueue = queue]
              /\ dropped' =
                     dropped \cup
                     {fetched + i : i \in
                         {j \in 1..count :
                             \A q \in 1..Len(queue) : queue[q] # fetched + j}}
    /\ pollers' = [pollers EXCEPT ![k] = "sleep"]
    /\ UNCHANGED <<now, ioTicks, faults, dlqConfigured, maxConcurrency,
                   cronVars, workers, poolCalls, handed>>

\* receiveMessages rejects: the catch of the loop sleeps 1 s
FetchThrows(k) ==
    /\ pollers[k] = "receiveMessages"
    /\ pollers' = [pollers EXCEPT ![k] = "sleep"]
    /\ UNCHANGED <<envVars, cronVars, workerPool, workers, poolCalls, dropped,
                   handed>>

\* a sleep of a worker ends
WorkerWake(k) ==
    /\ workers[k].pc = "sleep"
    /\ LET turn == workerTurn(workerPool, workers[k].workerId)
       IN  /\ workerPool' = turn.pool
           /\ workers' = workersAfter(workers, k, turn.worker)
           /\ handed' = handedAfter(handed, turn.worker)
    /\ UNCHANGED <<envVars, cronVars, pollers, poolCalls, dropped>>

\* the processMessage call of a worker settles: activeWorkers--, sleep 10 ms
ProcessMessageSettles(k) ==
    /\ workers[k].pc = "processMessage"
    /\ workerPool' = [workerPool EXCEPT !.activeWorkers = @ - 1]
    /\ workers' = [workers EXCEPT ![k] = Worker(@.workerId, "sleep", 0)]
    /\ UNCHANGED <<envVars, cronVars, pollers, poolCalls, dropped, handed>>

NextPool ==
    \/ Start
    \/ Stop
    \/ Pause
    \/ Resume
    \/ SetMaxWorkers
    \/ \E k \in DOMAIN pollers : PollerWake(k)
    \/ \E k \in DOMAIN pollers : FetchReply(k)
    \/ \E k \in DOMAIN pollers : FetchThrows(k)
    \/ \E k \in DOMAIN workers : WorkerWake(k)
    \/ \E k \in DOMAIN workers : ProcessMessageSettles(k)

SpecPool == InitPool /\ [][NextPool]_vars

(***************************************************************************)
(* Properties.                                                             *)
(***************************************************************************)
Outcomes == {"Sent", "Skipped", "Retryable", "Permanent", "ParseError"}

\* a message that cannot be parsed ends like a permanent failure
outcomeOf(t) == IF t.sendResult = "ParseError" THEN "Permanent" ELSE t.sendResult

\* the sendToDLQ call of the task threw
dlqFailed(t) == t.dlqCalls > 0 /\ ~t.dlq

\* C1 as the spec states it: a settled task has one outcome, and
\* deleteMessage was called for its message iff the outcome is Sent, Skipped
\* or Permanent.
C1_AckIffSentSkippedPermanent ==
    \A i \in DOMAIN tasks :
        tasks[i].pc = "done" =>
            /\ tasks[i].sendResult \in Outcomes
            /\ (tasks[i].ackCalls > 0) <=>
                   (outcomeOf(tasks[i]) \in {"Sent", "Skipped", "Permanent"})

\* C1, amended: a task has a result iff it has settled, a settled task has
\* one outcome, deleteMessage was called for its message iff the outcome is
\* Sent or Skipped, or it is Permanent (a parse failure included) and the
\* dead-letter enqueue did not throw; after Retryable no deleteMessage is
\* called and the message stays in the queue.
C1_AckIffDeliveredOrDeadLettered ==
    \A i \in DOMAIN tasks :
        /\ (tasks[i].pc = "done") <=> (tasks[i].result # Pending)
        /\ tasks[i].pc = "done" =>
              /\ tasks[i].sendResult \in Outcomes
              /\ (tasks[i].ackCalls > 0) <=>
                     \/ outcomeOf(tasks[i]) \in {"Sent", "Skipped"}
                     \/ /\ outcomeOf(tasks[i]) = "Permanent"
                        /\ ~dlqFailed(tasks[i])
              /\ tasks[i].sendResult = "Retryable" =>
                     tasks[i].ackCalls = 0 /\ ~tasks[i].deleted

\* a chunk has settled with one message sent and deleted, and the other
\* retryable and left in the queue
C1_SentAckedRetryableKept ==
    \E i, j \in DOMAIN tasks :
        /\ tasks[i].pc = "done" /\ tasks[j].pc = "done"
        /\ tasks[i].sendResult = "Sent" /\ tasks[i].deleted
        /\ tasks[j].sendResult = "Retryable" /\ tasks[j].ackCalls = 0

\* C2: of the send tasks of a chunk whose messages have the same fingerprint,
\* at most one has a submission accepted by the SMTP transport.
C2_OneSubmissionPerFingerprint ==
    \A i, j \in DOMAIN tasks :
        (/\ i # j
         /\ tasks[i].msg.json /\ tasks[j].msg.json
         /\ messageIdOf(tasks[i].msg) = messageIdOf(tasks[j].msg))
        => ~(tasks[i].sendResult = "Sent" /\ tasks[j].sendResult = "Sent")

\* the sends recorded for a domain within the last 60 s
sendsInLastMinute(domain) == Len(recentOf(domain))

\* the sends recorded within the last second
sendsInLastSecond == Len(prunedGlobal)

\* C3: in every 60 s window the successful sends to a domain number at most
\* the domain's per-minute limit plus maxConcurrency.
C3_DomainWindowWithinLimitPlusSkew ==
    \A d \in DOMAIN domainCounters :
        sendsInLastMinute(d) <= getDomainLimit(d) + maxConcurrency

\* C4: in every 1 s window the successful sends number at most the global
\* per-second limit plus maxConcurrency.
C4_GlobalWindowWithinLimitPlusSkew ==
    sendsInLastSecond <= GlobalLimit + maxConcurrency

\* C5: after every recordSend the global timestamps of the last 1,000 ms
\* number at most the global per-second limit.
C5_GlobalCountWithinLimit ==
    sendsInLastSecond <= GlobalLimit

\* C6: a task whose submission was rejected with 550, 551 or 552 makes no
\* further submission; it settles Permanent after that one attempt, with its
\* message enqueued to the dead-letter queue and deleted.
C6_HardBounceIsPermanent ==
    \A i \in DOMAIN tasks :
        tasks[i].lastError.responseCode \in {550, 551, 552} =>
            /\ tasks[i].attempt = 1
            /\ tasks[i].pc # "backoff"
            /\ tasks[i].pc = "done" =>
                  /\ tasks[i].sendResult = "Permanent"
                  /\ tasks[i].result.permanent
                  /\ dlqConfigured => tasks[i].dlq
                  /\ tasks[i].ackCalls > 0

\* the domain key sendEmail uses for the limiter's cooldown and counters
recipientDomain(t) == senderDomain(t.msg.to)

givesUpOn421(i) ==
    /\ i \in DOMAIN tasks'
    /\ tasks[i].pc = "smtp"
    /\ tasks'[i].pc # "smtp"
    /\ tasks'[i].sendResult \notin {"none", "Sent"}
    /\ tasks'[i].lastError.responseCode = 421

cooldownActive(domain) ==
    domain \in DOMAIN domainCooldowns /\ now < domainCooldowns[domain]

\* the step in which waitIfNeeded of task i completes: at once when there
\* is nothing to wait for, else when its timer fires
waitCompletes(i) ==
    /\ tasks'[i].pc \in {"jitter", "smtp"}
    /\ tasks'[i].attempt <= 1
    /\ i \in DOMAIN tasks => tasks[i].pc = "rateWait"

\* C8: waitIfNeeded for a recipient never completes while the cooldown of
\* the recipient's domain is set and has not ended.
C8_WaitOutlastsCooldown ==
    [][ \A i \in DOMAIN tasks' :
            waitCompletes(i) => ~cooldownActive(extractDomain(tasks'[i].msg.to))
      ]_vars

\* C9: no sendEmail makes more than maxRetries submissions, a settled task
\* has one outcome, a send that ends Retryable has made exactly maxRetries
\* submissions, a send that ends Sent between 1 and maxRetries, and a send
\* ends Permanent only on an error that isRetryableError rejects.
C9_AttemptsBounded ==
    \A i \in DOMAIN tasks :
        /\ tasks[i].attempt <= maxRetries
        /\ tasks[i].pc = "done" =>
              /\ tasks[i].sendResult \in Outcomes
              /\ tasks[i].sendResult = "Retryable" =>
                     /\ tasks[i].attempt = maxRetries
                     /\ tasks[i].result.isRetryable
                     /\ tasks[i].lastError # SmtpOk
              /\ tasks[i].sendResult = "Sent" =>
                     tasks[i].attempt \in 1..maxRetries
              /\ tasks[i].sendResult = "Permanent" =>
                     ~isRetryableError(tasks[i].lastError)

\* every submission of a send has failed and it has ended Retryable
C9_RetryableAfterMaxRetries ==
    \E i \in DOMAIN tasks :
        /\ tasks[i].pc = "done"
        /\ tasks[i].sendResult = "Retryable"
        /\ tasks[i].attempt = maxRetries
        /\ tasks[i].result = Result(FALSE, FALSE, TRUE, tasks[i].lastError.message)

\* C10: processMessagesWithConcurrency returns one result per message of
\* the batch, also when it has refused a chunk for lack of time.
C10_OneResultPerMessage ==
    (pc = "sleep" /\ batch # <<>>) => Len(results) = Len(batch)


\* the send tasks that have started and not settled
inFlight == {i \in DOMAIN tasks : tasks[i].pc # "done"}

\* C11: dispatch never has more than maxConcurrency send tasks in flight;
\* the tasks that exist are those of one chunk, the next at most
\* maxConcurrency messages of the batch after the chunks already settled,
\* in order; and a chunk exists only when every message before it has the
\* result of a settled task.
C11_ChunksBoundedAndSequential ==
    /\ Cardinality(inFlight) <= maxConcurrency
    /\ Len(tasks) <= maxConcurrency
    /\ tasks # <<>> =>
          /\ pc = "chunk"
          /\ chunkStart + Len(tasks) <= Len(batch)
          /\ \A i \in DOMAIN tasks : tasks[i].msg = batch[chunkStart + i]
          /\ Len(tasks) = Min2(maxConcurrency, Len(batch) - chunkStart)
    /\ pc \in {"dispatch", "chunk"} =>
          /\ Len(results) = chunkStart
          /\ \A i \in DOMAIN results : results[i] # Pending

\* C11 witness: the second chunk of a batch is in flight after the first
\* chunk settled
C11_SecondChunkInFlight ==
    /\ pc = "chunk"
    /\ chunkStart >= maxConcurrency
    /\ Len(batch) > maxConcurrency
    /\ inFlight # {}


\* the step settles task i with a failure
failsIn(i) ==
    /\ i \in DOMAIN tasks'
    /\ tasks[i].pc # "done"
    /\ tasks'[i].pc = "done"
    /\ ~tasks'[i].result.success

\* C12: a processMessage call that fails (parse, send, ack or dead-letter
\* error) settles with a failure result of its own and touches neither the
\* other calls of the chunk nor the drain loop; the chunk ends only when
\* every call of it has run to its outcome, each message of it then gets
\* the result of its call, and dispatch returns to the loop, which sleeps
\* and tests its condition again.
C12_TaskFailureIsContained ==
    [][ /\ \A i \in DOMAIN tasks :
              failsIn(i) =>
                  /\ pc' = pc
                  /\ stoppedReason' = stoppedReason
                  /\ results' = results
                  /\ \A j \in DOMAIN tasks \ {i} : tasks'[j] = tasks[j]
        /\ (pc = "chunk" /\ pc' # "chunk") =>
              /\ pc' = "dispatch"
              /\ Len(results') = Len(results) + Len(tasks)
              /\ \A i \in DOMAIN tasks :
                    /\ tasks[i].pc = "done"
                    /\ tasks[i].sendResult \in Outcomes
                    /\ tasks[i].result # Pending
                    /\ results'[chunkStart + i] = tasks[i].result
        /\ (pc = "dispatch" /\ pc' # "dispatch") => pc' \in {"chunk", "sleep"}
      ]_vars

\* C12 witness: dispatch has returned to the loop with the failure result
\* of a message whose body is not JSON and the success result of the other
\* message of the same chunk
C12_FailedAndSentInOneChunk ==
    /\ pc = "sleep"
    /\ maxConcurrency >= 2
    /\ Len(results) >= 2
    /\ ~batch[1].json /\ ~results[1].success /\ results[1].error = "thrown"
    /\ batch[2].json /\ results[2].success


C14_UnparseableDeadLetteredThenDeleted ==
    \A i \in DOMAIN tasks :
        ~tasks[i].msg.json =>
            /\ tasks[i].attempt = 0
            /\ tasks[i].pc \notin {"rateWait", "jitter", "smtp", "backoff"}
            /\ tasks[i].deleted => tasks[i].dlq
            /\ (tasks[i].pc = "done" /\ faults = 0) =>
                  tasks[i].dlq /\ tasks[i].deleted


\* C15: when processSQSEvent has returned, a record is among the
\* batchItemFailures if and only if it was not deleted from the source
\* queue.
C15_FailureReportedIffNotDeleted ==
    pc = "eventDone" =>
        \A i \in DOMAIN batch :
            (i \in batchItemFailures) <=> ~tasks[i].deleted


\* C16: when processQueue has returned, stoppedReason is one of queue_empty
\* and timeout; it is queue_empty exactly when the last maxEmptyPolls
\* fetches that returned all returned nothing, in which case the exit is
\* the break after the third of them; every other exit happens with no
\* more than 5 s left and gives timeout; and after a refused dispatch the
\* loop is about to end that way: less than 5 s are left and the last fetch
\* returned messages.
C16_StoppedReasonTellsTheExit ==
    /\ pc # "done" => stoppedReason = ""
    /\ pc = "done" =>
          /\ stoppedReason \in {"queue_empty", "timeout"}
          /\ (stoppedReason = "queue_empty") <=> (emptyRun >= maxEmptyPolls)
          /\ stoppedReason = "timeout" =>
                emptyRun < maxEmptyPolls /\ getRemainingTime <= DeadlineMargin
    /\ (pc = "sleep" /\ results # <<>>
           /\ results[Len(results)] = TimeoutResult) =>
          emptyPolls = 0 /\ emptyRun = 0 /\ getRemainingTime < DeadlineMargin

\* C16 witness: a drain has ended with queue_empty after it fetched and
\* processed messages and then made three empty fetches
C16_QueueEmptyAfterMessages ==
    /\ pc = "done"
    /\ stoppedReason = "queue_empty"
    /\ totalProcessed > 0
    /\ emptyRun = maxEmptyPolls


\* C17: every drain comes to its end, the return of processQueue; every
\* sleep of the loop is followed by another test of the loop condition;
\* and an exception of the fetch is followed by a sleep of 2 s.
C17_DrainTerminates ==
    /\ <>(pc = "done")
    /\ (pc = "sleep") ~> (pc = "loop")
    /\ [][ (pc = "fetch" /\ faults' > faults) =>
               (pc' = "sleep" /\ wake' = now + ErrorSleep) ]_vars

\* C17 witness: a drain has returned after a fetch that threw and after
\* messages were processed
C17_ReturnedAfterFetchError ==
    /\ pc = "done"
    /\ faults > 0
    /\ totalProcessed > 0


\* the deadline of the drain has expired
deadlineExpired == getRemainingTime <= 0

\* C18 as the spec states it: a send task that is in a backoff sleep when
\* the deadline has expired makes no further SMTP submission: its next step
\* ends the send, Retryable.
C18_DeadlineCutsBackoffShort ==
    [][ \A i \in DOMAIN tasks :
            (/\ i \in DOMAIN tasks'
             /\ tasks[i].pc = "backoff"
             /\ deadlineExpired
             /\ tasks'[i] # tasks[i]) =>
                /\ tasks'[i].pc = "done"
                /\ tasks'[i].attempt = tasks[i].attempt
                /\ tasks'[i].result.isRetryable
      ]_vars


\* the timestamps the limiter holds for all domains together
countOf(counters) ==
    Cardinality(UNION {{<<d, k>> : k \in 1..Len(counters[d])} :
                          d \in DOMAIN counters})

\* the tasks whose sendEmail becomes Sent in the step
newlySent ==
    {i \in DOMAIN tasks' :
        /\ tasks'[i].sendResult = "Sent"
        /\ i \notin DOMAIN tasks \/ tasks[i].sendResult # "Sent"}

C20_SecondSendIsSkipped ==
    [][ /\ \A i \in DOMAIN tasks' :
              /\ tasks'[i].sendResult = "Skipped" =>
                    /\ tasks'[i].attempt = 0
                    /\ tasks'[i].pc \in {"delete", "catchDlq", "catchDelete", "done"}
                    /\ sentCount' >= 1
              /\ (maxConcurrency = 1 /\ sentCount' >= 1
                   /\ tasks'[i].msg.json /\ tasks'[i].sendResult # "Sent") =>
                    tasks'[i].sendResult = "Skipped"
              /\ (tasks'[i].pc = "done"
                   /\ tasks'[i].sendResult \in {"Sent", "Skipped"}) =>
                    tasks'[i].ackCalls > 0
        /\ (pc = "dispatch" /\ pc' = "chunk"
             /\ \E i \in DOMAIN tasks' : tasks'[i].sendResult = "Skipped") =>
              /\ domainCounters' = domainCounters
              /\ globalCounter' = globalCounter
              /\ domainCooldowns' = domainCooldowns
              /\ processedMessages' = processedMessages
        /\ maxConcurrency = 1 => sentCount' <= 1
      ]_vars

\* C20 witness: with maxConcurrency = 1 the first of two equal messages
\* was sent and deleted, and the second has been skipped and deleted
C20_SentThenSkipped ==
    /\ maxConcurrency = 1
    /\ pc = "chunk"
    /\ chunkStart = 1
    /\ batch[1] = batch[2]
    /\ results[1].success
    /\ sentCount = 1
    /\ tasks[1].sendResult = "Skipped"
    /\ tasks[1].pc = "done"
    /\ tasks[1].attempt = 0
    /\ tasks[1].deleted

\* C21: the delay sendEmail sleeps between failed attempt k and attempt k+1
\* is at least initialRetryDelay * 2^(k-1), at most 1.3 times that, and
\* never more than maxRetryDelay
C21_BackoffWithinJitterBand ==
    [][\A i \in DOMAIN tasks :
          (i \in DOMAIN tasks' /\ tasks[i].pc = "smtp" /\ tasks'[i].pc = "backoff")
          => LET k == tasks[i].attempt
                 slept == tasks'[i].wake - now
             IN  /\ slept >= initialRetryDelay * Pow2(k - 1)
                 /\ 10 * slept <= 13 * initialRetryDelay * Pow2(k - 1)
                 /\ slept <= maxRetryDelay]_vars

\* the second backoff of a send starts with nearly the largest jitter
C21_SecondBackoffNearTop ==
    \E i \in DOMAIN tasks :
        /\ tasks[i].pc = "backoff"
        /\ tasks[i].attempt = 2
        /\ tasks[i].wake - now = 2599

\* the stamps the limiter holds for the sends to recipients without '@',
\* under the key of extractDomain of either service
malformedStamps ==
    (IF "unknown" \in DOMAIN domainCounters
     THEN domainCounters["unknown"] ELSE <<>>)
    \o (IF Null \in DOMAIN domainCounters
        THEN domainCounters[Null] ELSE <<>>)

\* C22: the sends to recipients without '@' are checked and recorded under
\* the key "unknown", so at most the default per-minute limit of them is
\* recorded within any minute
C22_DefaultLimitOnMalformedRecipients ==
    Len(After(malformedStamps, now - OneMinute)) <= DefaultLimit

\* C23: the Message-ID of each SMTP submission differs from that of the
\* submission before it in the same sendEmail call
C23_RetryCarriesNewMessageId ==
    [][\A i \in DOMAIN tasks :
          (i \in DOMAIN tasks' /\ tasks[i].pc = "backoff" /\ tasks'[i].pc = "smtp")
          => tasks'[i].messageIdHeader # tasks[i].messageIdHeader]_vars

\* the decoded payloads that are serialized
SendRequests ==
    [recipient : {"a@gmail.com"}, subject : {"", "hi"},
     body : {"", "<p>c</p>"}, content_kind : {"html", "text"}]

\* a SendRequest as a queue message: the JSON body with to, subject, content
\* and contentType, and no attributes
serialize(r) ==
    [Body |-> JSONstringify(
                  [to |-> r.recipient, subject |-> r.subject,
                   content |-> r.body, html |-> Undefined, text |-> Undefined,
                   body |-> Undefined, contentType |-> r.content_kind]),
     MessageAttributes |-> [to |-> NoAttribute, subject |-> NoAttribute]]

\* C24: parseMessage of a serialized SendRequest returns the recipient, the
\* subject, the body and the content_kind of the request
C24_ParseOfSerializedPreserves ==
    \A r \in SendRequests :
        (pc = "returned" /\ callArgument = <<serialize(r)>>)
        => /\ ~callResult[1].threw
           /\ callResult[1].to = r.recipient
           /\ callResult[1].subject = r.subject
           /\ callResult[1].content = r.body
           /\ callResult[1].contentType = r.content_kind

\* the string a present attribute holds
attributeString(attr) ==
    IF attr.StringValue # Undefined THEN attr.StringValue
    ELSE IF attr.stringValue # Undefined THEN attr.stringValue
    ELSE AnObject

\* the first of the values that is present
RECURSIVE firstPresent(_)
firstPresent(values) ==
    IF values = <<>> THEN Undefined
    ELSE IF Head(values) # Undefined THEN Head(values)
    ELSE firstPresent(Tail(values))

\* C25: parseMessage returns the recipient and the subject of the attributes
\* to and subject where the message has them and of the body where it has
\* not, the first present of content, html, text and body as the body, and
\* as content_kind contentType where the body has one, else html where the
\* body has a property html, else text
C25_AttributesFirstThenFirstPresent ==
    (pc = "returned" /\ callArgument[1].Body.valid)
    => LET body == JSONparse(callArgument[1].Body)
           attributes == callArgument[1].MessageAttributes
           parsed == callResult[1]
       IN  /\ ~parsed.threw
           /\ parsed.to = IF attributes.to.present
                          THEN attributeString(attributes.to)
                          ELSE body.to
           /\ parsed.subject = IF attributes.subject.present
                               THEN attributeString(attributes.subject)
                               ELSE body.subject
           /\ parsed.content =
                  firstPresent(<<body.content, body.html, body.text, body.body>>)
           /\ parsed.contentType =
                  IF body.contentType # Undefined THEN body.contentType
                  ELSE IF body.html # Undefined THEN "html"
                  ELSE "text"

\* C26: a message is deleted from the source queue only when its send
\* returned Sent or Skipped or when it was enqueued to the dead-letter queue
C26_DeletedOnlyIfDeliveredOrDeadLettered ==
    \A i \in DOMAIN tasks :
        tasks[i].deleted
        => \/ tasks[i].sendResult \in {"Sent", "Skipped"}
           \/ tasks[i].dlq

\* C27: a message is enqueued to the dead-letter queue only when its send
\* returned a permanent failure or its body could not be parsed, never when
\* its send returned Sent or Skipped
C27_DeadLetteredOnlyIfPermanentOrUnparseable ==
    \A i \in DOMAIN tasks :
        tasks[i].dlq => tasks[i].sendResult \in {"Permanent", "ParseError"}

\* C28: an idempotency entry is written for a fingerprint only by the step
\* in which a submission for that fingerprint is accepted, so a send that
\* ends Retryable or Permanent writes none; a message is skipped only when
\* its fingerprint has an entry, and a message whose fingerprint has none
\* goes on to the SMTP submission
C28_EntryOnlyAfterAcceptedSubmission ==
    [][/\ \A id \in DOMAIN processedMessages' :
            (\/ id \notin DOMAIN processedMessages
             \/ processedMessages'[id] # processedMessages[id])
            => \E i \in DOMAIN tasks :
                  /\ tasks[i].pc = "smtp"
                  /\ tasks'[i].sendResult = "Sent"
                  /\ messageIdOf(tasks[i].msg) = id
       /\ \A i \in DOMAIN tasks :
            (/\ i \in DOMAIN tasks'
             /\ tasks[i].pc = "smtp"
             /\ tasks'[i].sendResult \in {"Retryable", "Permanent"})
            => processedMessages' = processedMessages
       /\ (pc = "dispatch" /\ pc' = "chunk")
          => \A i \in {j \in DOMAIN tasks' : tasks'[j].msg.json} :
                IF messageIdOf(tasks'[i].msg) \in DOMAIN processedMessages
                THEN tasks'[i].sendResult = "Skipped"
                ELSE tasks'[i].pc \in {"rateWait", "jitter", "smtp"}]_vars

\* a message is submitted to SMTP after an earlier message to the same
\* mailbox was given up with 421, nothing having been sent
C28_SubmittedAgainAfterFailure ==
    /\ fetched = 2
    /\ totalFailed = 1
    /\ "gmail.com" \in DOMAIN domainCooldowns
    /\ sentCount = 0
    /\ ackedCount = 0
    /\ processedMessages = EmptyMap
    /\ \E i \in DOMAIN tasks :
          /\ tasks[i].pc = "smtp"
          /\ tasks[i].attempt = 1
          /\ tasks[i].msg.json

\* C29: a send whose first submission is rejected and whose second is
\* accepted has made two attempts and slept one backoff of 1000 to 1300 ms
\* between them; the acceptance writes the idempotency entry and one
\* timestamp for the domain and one global timestamp, the send is Sent, and
\* its message is deleted from the queue
C29_SentOnSecondAttempt ==
    \A i \in DOMAIN tasks :
        (tasks[i].rejections = 1 /\ tasks[i].sendResult = "Sent")
        => LET t == tasks[i]
               firstSubmission == startTime + sendJitter(t.msg.to, 0)
               slept == t.wake - firstSubmission
           IN  /\ t.attempt = 2
               /\ t.backoffs = 1
               /\ slept >= 1000 /\ slept <= 1300
               /\ messageIdOf(t.msg) \in DOMAIN processedMessages
               /\ processedMessages[messageIdOf(t.msg)] = t.wake
               /\ domainCounters = [d \in {senderDomain(t.msg.to)} |-> <<t.wake>>]
               /\ globalCounter = <<t.wake>>
               /\ sentCount = 1
               /\ t.pc \in {"delete", "done"}
               /\ t.pc = "done"
                  => /\ t.result = Result(TRUE, FALSE, FALSE, "")
                     /\ t.ackCalls = 1
                     /\ t.deleted

\* a send has ended Sent after a 451 and a backoff with jitter, and its
\* message is deleted
C29_SentAfter451 ==
    \E i \in DOMAIN tasks :
        /\ tasks[i].pc = "done"
        /\ tasks[i].sendResult = "Sent"
        /\ tasks[i].rejections = 1
        /\ tasks[i].lastError.responseCode = 451
        /\ tasks[i].wake = 1200
        /\ tasks[i].deleted

\* C30: isRetryableError returns true for every error with the code of a
\* timeout, a connection reset or a DNS failure, for every error with a
\* 4xx response code, for every error with a 5xx response code other than
\* 550, 551 and 552, and for every error without a response code
C30_TransientClassesAreRetryable ==
    pc = "returned"
    => LET error == callArgument[1]
       IN  (\/ error.code \in {"ETIMEDOUT", "ECONNRESET", "ENOTFOUND"}
            \/ error.responseCode \in 400..499
            \/ error.responseCode \in (500..599) \ {550, 551, 552}
            \/ error.responseCode = 0)
           => callResult = <<TRUE>>

\* a refused connection, an error without a response code, is retryable
C30_RefusedConnectionIsRetryable ==
    /\ pc = "returned"
    /\ callArgument = <<SmtpError(0, "ECONNREFUSED", "")>>
    /\ callResult = <<TRUE>>

\* WaitTimeSeconds of the pending receiveMessages call, in milliseconds
pollWait == wake - pollStart

\* getRemainingTime when the pending receiveMessages call was made
remainingAtPoll == lambdaDeadline - (pollStart - startTime)

\* C31: every receiveMessages call of the drain loop asks for at most 10
\* messages and for a wait of whole seconds, between 0 and 20, that is
\* shorter than the time that remained to the deadline when it was made;
\* the batch it returns holds at most 10 messages and a poll that runs its
\* full wait ends before the deadline
C31_PollShorterThanRemaining ==
    /\ pc = "fetch"
       => /\ MaxNumberOfMessages(batchSize) <= 10
          /\ pollWait % OneSecond = 0
          /\ pollWait >= 0
          /\ pollWait <= MaxPollSeconds * OneSecond
          /\ pollWait < remainingAtPoll
          /\ wake - startTime < lambdaDeadline
    /\ Len(batch) <= 10

\* a poll made after a batch was processed, with less than 20 s left
C31_ShortPollNearDeadline ==
    /\ pc = "fetch"
    /\ fetched > 0
    /\ totalProcessed > 0
    /\ pollWait > 0
    /\ pollWait < MaxPollSeconds * OneSecond

\* Date.now() - processedAt of the entry of messageId
ageOf(messageId) == now - processedMessages[messageId]

\* sendEmail went past the idempotency check with task t
proceedsToSmtp(t) ==
    /\ t.pc \in {"rateWait", "jitter", "smtp"}
    /\ t.sendResult = "none"

\* C32: a send that finds an entry younger than the 24 h window is skipped
\* and leaves the entry as it is; a send that finds an entry of the window's
\* age or older removes it and goes on to SMTP; an accepted submission
\* stores an entry stamped with the current time; and no step, the periodic
\* cleanup included, removes an entry that is younger than the window.
C32_EntryLiveWhileYoungerThanWindow ==
   [][/\ (pc = "dispatch" /\ pc' = "chunk")
          => \A i \in DOMAIN tasks' :
                LET id == messageIdOf(tasks'[i].msg)
                IN  id \in DOMAIN processedMessages
                    => IF ageOf(id) < idempotencyWindow
                       THEN /\ tasks'[i].sendResult = "Skipped"
                            /\ id \in DOMAIN processedMessages'
                            /\ processedMessages'[id] = processedMessages[id]
                       ELSE /\ id \notin DOMAIN processedMessages'
                            /\ proceedsToSmtp(tasks'[i])
      /\ \A i \in DOMAIN tasks :
            (/\ tasks[i].pc = "smtp"
             /\ i \in DOMAIN tasks'
             /\ tasks'[i].sendResult = "Sent")
            => LET id == messageIdOf(tasks[i].msg)
               IN  /\ id \in DOMAIN processedMessages'
                   /\ processedMessages'[id] = now
      /\ \A id \in DOMAIN processedMessages :
            ageOf(id) < idempotencyWindow
            => /\ id \in DOMAIN processedMessages'
               /\ processedMessages'[id] >= processedMessages[id]
     ]_vars

\* the first copy was skipped on an entry 100 ms short of the window, the
\* second found the entry expired and was sent, and a fresh entry is stored
C32_SkippedThenSentOnceExpired ==
    /\ fetched = IdempotencyCopies
    /\ totalProcessed = 1
    /\ sentCount = 1
    /\ \E i \in DOMAIN tasks :
          /\ tasks[i].sendResult = "Sent"
          /\ tasks[i].deleted
          /\ processedMessages[messageIdOf(tasks[i].msg)] >= 100

\* the timestamps recorded for domain, [] when it has no counter
stampsOf(counters, domain) ==
    IF domain \in DOMAIN counters THEN counters[domain] ELSE <<>>

\* s is t with some elements removed, the rest in their order
RECURSIVE IsSubSeq(_, _)
IsSubSeq(s, t) ==
    IF s = <<>> THEN TRUE
    ELSE IF t = <<>> THEN FALSE
    ELSE IF Head(s) = Head(t) THEN IsSubSeq(Tail(s), Tail(t))
    ELSE IsSubSeq(s, Tail(t))

\* after is before without some timestamps that are not later than bound
removesOnlyUpTo(before, after, bound) ==
    /\ IsSubSeq(after, before)
    /\ After(after, bound) = After(before, bound)

\* a step of the cleanup timer: no call of the drain moves and no time passes
cleanupStep == tasks' = tasks /\ pc' = pc /\ now' = now

\* the recipients whose delay is compared
CleanupRecipients == { <<"a", "gmail.com">>, <<"u", "x.example">>, <<"nobody">> }

\* what cleanup does apart from the age of the timestamps it removes: it
\* adds no counter and no cooldown, keeps every cooldown that has not
\* expired, and leaves the delay of every recipient as it is
cleanupKeepsTheRest ==
    /\ DOMAIN domainCounters' \subseteq DOMAIN domainCounters
    /\ DOMAIN domainCooldowns' \subseteq DOMAIN domainCooldowns
    /\ \A d \in DOMAIN domainCooldowns :
          IF now < domainCooldowns[d]
          THEN /\ d \in DOMAIN domainCooldowns'
               /\ domainCooldowns'[d] = domainCooldowns[d]
          ELSE d \notin DOMAIN domainCooldowns'
    /\ \A email \in CleanupRecipients :
          getDelayBeforeSend(email)' = getDelayBeforeSend(email)

\* C33 as the spec states it: cleanup removes only domain timestamps older
\* than 120 s, only global timestamps older than 60 s and only cooldowns
\* that have expired, and changes the delay of no recipient
C33_CleanupRemovesOnlyOlder ==
    [][cleanupStep
       => /\ \A d \in DOMAIN domainCounters :
                removesOnlyUpTo(domainCounters[d], stampsOf(domainCounters', d),
                                now - CleanupAge - 1)
          /\ removesOnlyUpTo(globalCounter, globalCounter', now - OneMinute - 1)
          /\ cleanupKeepsTheRest
      ]_vars

\* C33, amended: cleanup removes only domain timestamps that are 120 s old
\* or older, only global timestamps that are 60 s old or older and only
\* cooldowns that have expired (cooldownUntil <= now); it keeps every
\* unexpired cooldown and changes the delay of no recipient
C33_CleanupRemovesOnlyStale ==
    [][cleanupStep
       => /\ \A d \in DOMAIN domainCounters :
                removesOnlyUpTo(domainCounters[d], stampsOf(domainCounters', d),
                                now - CleanupAge)
          /\ removesOnlyUpTo(globalCounter, globalCounter', now - OneMinute)
          /\ cleanupKeepsTheRest
      ]_vars

\* cleanup has removed timestamps of gmail.com and kept others, and a
\* cooldown of the domain that has not expired is in place
C33_CleanedUnderCooldown ==
    /\ Len(stampsOf(domainCounters, "gmail.com")) > 0
    /\ Len(stampsOf(domainCounters, "gmail.com")) < sentCount
    /\ "gmail.com" \in DOMAIN domainCooldowns
    /\ now < domainCooldowns["gmail.com"]

\* no element of s is greater than the one after it
IsSorted(s) == \A i \in 1..(Len(s) - 1) : s[i] <= s[i + 1]

\* after is before with elements removed and at most the current time
\* appended
prunedOrAppended(before, after) ==
    \/ IsSubSeq(after, before)
    \/ /\ after # <<>>
       /\ after[Len(after)] = now
       /\ IsSubSeq(SubSeq(after, 1, Len(after) - 1), before)

\* C34: after every step the timestamps of every domain and the global
\* timestamps are in non-decreasing order, and the step has changed each
\* sequence only by removing elements and by appending the current time
C34_TimestampsStayOrdered ==
    [][/\ \A d \in DOMAIN domainCounters' :
             /\ IsSorted(domainCounters'[d])
             /\ prunedOrAppended(stampsOf(domainCounters, d), domainCounters'[d])
       /\ IsSorted(globalCounter')
       /\ prunedOrAppended(globalCounter, globalCounter')
      ]_vars

\* cleanup has removed the oldest timestamps of gmail.com, and sends of
\* different times remain in the domain's and in the global sequence
C34_PrunedAndAppended ==
    LET stamps == stampsOf(domainCounters, "gmail.com")
    IN  /\ Len(stamps) >= 2
        /\ Len(stamps) < sentCount
        /\ stamps[1] < stamps[Len(stamps)]
        /\ Len(globalCounter) >= 2
        /\ Len(globalCounter) < sentCount
        /\ globalCounter[1] < globalCounter[Len(globalCounter)]

\* C35: processMessagesWithConcurrency of the event-driven entry holds, after
\* every chunk, one result for each record of the chunks done, the i-th
\* result being what the processMessage call of the i-th record settled
\* with; when it returns there is one result for every record of the event
C35_EventResultsFollowRecords ==
    /\ Len(results) = chunkStart
    /\ Len(results) <= Len(batch)
    /\ \A i \in 1..Len(results) :
          /\ tasks[i].msg = batch[i]
          /\ tasks[i].pc = "done"
          /\ results[i] = tasks[i].result
    /\ pc = "eventDone" => Len(results) = Len(batch)

\* two records processed one after the other: the first is a text that
\* does not parse and failed, the second was sent
C35_FailedThenSentInOrder ==
    /\ pc = "eventDone"
    /\ maxConcurrency = 1
    /\ Len(batch) = 2
    /\ ~batch[1].json
    /\ batch[2].json
    /\ Len(results) = 2
    /\ ~results[1].success
    /\ results[2].success


\* C36: totalProcessed counts the messages whose sendEmail returned success
\* (Sent or Skipped) and whose deleteMessage call, the ack that follows,
\* succeeded: it never exceeds their number and equals it when processQueue
\* returns; and a drain whose fetches all returned nothing has made no
\* sendMail call and reports 0 processed
C36_ProcessedCountsSentAndAcked ==
    /\ totalProcessed <= ackedCount
    /\ ackedCount <= fetched
    /\ pc = "done" =>
          /\ totalProcessed = ackedCount
          /\ fetched = 0 =>
                sentCount = 0 /\ totalProcessed = 0 /\ totalFailed = 0

\* C36 witness: a drain has ended that sent two messages, the ack of one of
\* them failed, and it reports one processed and one failed
C36_OneAckedOfTwoSent ==
    /\ pc = "done"
    /\ fetched = 2
    /\ sentCount = 2
    /\ ackedCount = 1
    /\ totalProcessed = 1
    /\ totalFailed = 1


\* the workers that are awaiting processMessage
processing == {k \in DOMAIN workers : workers[k].pc = "processMessage"}

\* C37: in the worker pool 0 <= activeWorkers <= maxWorkers in every state,
\* and never more than maxWorkers messages are being processed at once,
\* whatever calls of start, stop, pause, resume and setMaxWorkers are made
C37_ActiveWorkersWithinMaxWorkers ==
    /\ 0 <= workerPool.activeWorkers
    /\ workerPool.activeWorkers <= workerPool.maxWorkers
    /\ Cardinality(processing) <= workerPool.maxWorkers

\* how often message stands in messageQueue
timesQueued(message) ==
    Cardinality({q \in 1..Len(workerPool.messageQueue) :
                    workerPool.messageQueue[q] = message})

\* C38: the poller leaves out no message it fetched: every message a fetch
\* returned is in messageQueue and was taken by no worker, or has left it
\* and was taken by exactly one
C38_FetchedQueuedThenHandedOnce ==
    /\ dropped = {}
    /\ \A message \in 1..fetched :
          timesQueued(message) + timesHanded(handed, message) = 1

====
